---- MODULE Spec2Model ----
(***************************************************************************)
(* Model of the finance bot: the aiogram FSM context of each sender        *)
(* (state + data), the users, roles, admin_roles, requests, complaints and *)
(* audit_log tables, and the handlers of handlers/start.py,                *)
(* handlers/finance.py, handlers/complaints.py, handlers/admin.py (grant   *)
(* and revoke of the admin flag) and handlers/user_settings.py (language   *)
(* and currency), with get_user_permissions of utils/auth.py, and the      *)
(* broadcast worker of services/broadcast_service.py.                      *)
(*                                                                         *)
(* Handlers whose only writes go to the FSM context are one step each.     *)
(* The two handlers that commit rows (confirm_request_handler and          *)
(* complaint_text_handler) are split at their storage suspension points    *)
(* (session.commit of the entity, session.commit of the audit row,         *)
(* state.clear), because aiogram handles every update in its own task and  *)
(* other updates of the same sender can run between those points.          *)
(***************************************************************************)
EXTENDS Integers, Sequences, FiniteSets, TLC

\* Python None as an FSM state name or a reply; an optional value is a
\* sequence of length at most one: Nil is None, Some(v) is the value v.
None == "None"
Nil == <<>>
Some(v) == <<v>>
Get(o) == o[1]

(***************************************************************************)
(* Message texts are sequences of characters (one-character strings); a    *)
(* menu button label is a one-element sequence holding the label.          *)
(***************************************************************************)
Digits == {"0", "1", "2", "3", "4", "5", "6", "7", "8", "9"}

DigitVal(c) ==
    CASE c = "0" -> 0 [] c = "1" -> 1 [] c = "2" -> 2 [] c = "3" -> 3
      [] c = "4" -> 4 [] c = "5" -> 5 [] c = "6" -> 6 [] c = "7" -> 7
      [] c = "8" -> 8 [] c = "9" -> 9

DigitChar(n) ==
    CASE n = 0 -> "0" [] n = 1 -> "1" [] n = 2 -> "2" [] n = 3 -> "3"
      [] n = 4 -> "4" [] n = 5 -> "5" [] n = 6 -> "6" [] n = 7 -> "7"
      [] n = 8 -> "8" [] n = 9 -> "9"

RECURSIVE Pow10(_)
Pow10(n) == IF n = 0 THEN 1 ELSE 10 * Pow10(n - 1)

\* str.strip(): drop leading and trailing blanks
RECURSIVE LStrip(_)
LStrip(s) == IF s # <<>> /\ Head(s) = " " THEN LStrip(Tail(s)) ELSE s

RECURSIVE RStrip(_)
RStrip(s) ==
    IF s # <<>> /\ s[Len(s)] = " " THEN RStrip(SubSeq(s, 1, Len(s) - 1)) ELSE s

Strip(s) == RStrip(LStrip(s))

\* str.replace(',', '.')
ReplaceComma(s) == [i \in 1..Len(s) |-> IF s[i] = "," THEN "." ELSE s[i]]

RECURSIVE DigitsToInt(_)
DigitsToInt(s) ==
    IF s = <<>> THEN 0
    ELSE 10 * DigitsToInt(SubSeq(s, 1, Len(s) - 1)) + DigitVal(s[Len(s)])

RECURSIVE IntToDigits(_)
IntToDigits(n) ==
    IF n < 10 THEN <<DigitChar(n)>>
    ELSE Append(IntToDigits(n \div 10), DigitChar(n % 10))

(***************************************************************************)
(* decimal.Decimal(text): a value is [kind, sign, coef, exp] with          *)
(* kind "num" (sign * coef * 10^exp), "inf", "nan", or "invalid" when the  *)
(* constructor raises InvalidOperation.  The grammar modelled is           *)
(* [sign] digits [. digits] | [sign] . digits | [sign] Inf | NaN.          *)
(***************************************************************************)
InvalidDecimal == [kind |-> "invalid", sign |-> 0, coef |-> 0, exp |-> 0]

DecimalBody(sign, b) ==
    LET dots == {i \in 1..Len(b) : b[i] = "."}
    IN  IF b = <<"I", "n", "f">>
        THEN [kind |-> "inf", sign |-> sign, coef |-> 0, exp |-> 0]
        ELSE IF b = <<"N", "a", "N">>
        THEN [kind |-> "nan", sign |-> sign, coef |-> 0, exp |-> 0]
        ELSE IF Cardinality(dots) > 1 THEN InvalidDecimal
        ELSE LET p    == IF dots = {} THEN Len(b) + 1 ELSE CHOOSE i \in dots : TRUE
                 int  == SubSeq(b, 1, p - 1)
                 frac == SubSeq(b, p + 1, Len(b))
                 ds   == int \o frac
             IN  IF ds = <<>> \/ \E i \in 1..Len(ds) : ds[i] \notin Digits
                 THEN InvalidDecimal
                 ELSE [kind |-> "num", sign |-> sign,
                       coef |-> DigitsToInt(ds), exp |-> 0 - Len(frac)]

Decimal(s) ==
    LET t == Strip(s)
    IN  IF t = <<>> THEN InvalidDecimal
        ELSE IF Head(t) = "-" THEN DecimalBody(1, Tail(t))
        ELSE IF Head(t) = "+" THEN DecimalBody(0, Tail(t))
        ELSE DecimalBody(0, t)

\* Decimal.__lt__ / __le__ on finite numbers: compare at the smaller exponent
Signed(d) == IF d.sign = 1 THEN 0 - d.coef ELSE d.coef

Scaled(d, e) == Signed(d) * Pow10(d.exp - e)

MinExp(a, b) == IF a.exp < b.exp THEN a.exp ELSE b.exp

NumLess(a, b) == Scaled(a, MinExp(a, b)) < Scaled(b, MinExp(a, b))

NumEq(a, b) == Scaled(a, MinExp(a, b)) = Scaled(b, MinExp(a, b))

\* a < b for a finite or infinite, b finite
DecLess(a, b) ==
    IF a.kind = "inf" THEN a.sign = 1 ELSE NumLess(a, b)

\* a > b for a finite or infinite, b finite
DecGreater(a, b) ==
    IF a.kind = "inf" THEN a.sign = 0 ELSE NumLess(b, a)

\* str(Decimal) of a finite value with exp <= 0 and adjusted exponent >= -6
DecimalStr(d) ==
    LET ds  == IntToDigits(d.coef)
        n   == Len(ds)
        k   == 0 - d.exp
        sgn == IF d.sign = 1 THEN <<"-">> ELSE <<>>
    IN  IF k = 0 THEN sgn \o ds
        ELSE IF n > k
        THEN sgn \o SubSeq(ds, 1, n - k) \o <<".">> \o SubSeq(ds, n - k + 1, n)
        ELSE sgn \o <<"0", ".">> \o [i \in 1..(k - n) |-> "0"] \o ds


(***************************************************************************)
(* Bounds of the model: the menu buttons (flow starts) and the irregular   *)
(* updates a run holds.                                                    *)
(***************************************************************************)
MaxFlows == 1
MaxIrregular == 1

(***************************************************************************)
(* Inputs.  A button label stands for both of its language variants and    *)
(* is written without its emoji; labels are compared as wholes only.       *)
(***************************************************************************)
TelegramIds == {101}

DepositTexts == {<<"Request Deposit">>}
WithdrawTexts == {<<"Request Withdrawal">>}
ComplaintTexts == {<<"Complaint">>}
CancelTexts == {<<"Cancel">>, <<"Cancel_ar">>}
ResetTexts == {<<"Reset">>, <<"Reset_ar">>}

AmountTexts ==
    { <<"a", "b", "c">>, <<"0">>, <<"-", "5">>, <<"0", ".", "9", "9">>,
      <<"1", ".", "0", "0">>, <<" ", "1", "0", "0", "0", "0", "0", "0", ",", "0">>,
      <<"1", "0", "0", "0", "0", "0", "0", ".", "0", "1">>,
      <<"1", ".", "5", ".", "0">>, <<"N", "a", "N">>, <<"I", "n", "f">>,
      <<"-", "I", "n", "f">> }

ReferenceTexts == { <<"r", "e", "f", "-", "1">> }
AddressTexts == { <<" ", "T", "x", "9">> }
ComplaintBodies ==
    { <<" ", "t", "o", "o", " ", "s", "h", "o", "r", "t", " ">>,
      <<" ", "n", "o", " ", "p", "a", "y", "o", "u", "t", "!", " ">> }

(***************************************************************************)
(* Contents of the companies and payment_methods tables.  No handler of    *)
(* the modelled routers writes them; a run starts from one of these.       *)
(***************************************************************************)
CompanyRow(c, active) == [id |-> c, is_active |-> active]
MethodRow(p, c, active) == [id |-> p, company_id |-> c, is_active |-> active]

Catalogues ==
    { [companies |-> <<CompanyRow(1, TRUE)>>,
       payment_methods |-> <<MethodRow(1, 1, TRUE)>>],
      [companies |-> <<CompanyRow(1, FALSE)>>,
       payment_methods |-> <<MethodRow(1, 1, TRUE)>>],
      [companies |-> <<CompanyRow(1, TRUE)>>,
       payment_methods |-> <<MethodRow(1, 1, FALSE)>>],
      [companies |-> <<CompanyRow(1, TRUE), CompanyRow(2, TRUE)>>,
       payment_methods |-> <<MethodRow(1, 1, TRUE), MethodRow(2, 2, TRUE)>>],
      [companies |-> <<CompanyRow(1, TRUE), CompanyRow(2, FALSE)>>,
       payment_methods |-> <<MethodRow(1, 1, TRUE), MethodRow(2, 2, TRUE)>>] }

CompanyIds == {1, 2, 3}
PaymentMethodIds == {1, 2, 3}

DEFAULT_CURRENCY == "SAR"
DEFAULT_LANGUAGE == "ar"
SUPPORTED_LANGUAGES == {"ar", "en"}

\* config.ADMINS, the super-admin allowlist read from the environment at
\* start-up: one allowlisted Telegram id
ADMINS == {900}

(***************************************************************************)
(* utils/auth.py: the permissions and the roles ensure_default_roles       *)
(* stores at start-up when the roles table is empty.                       *)
(***************************************************************************)
Permissions ==
    [MANAGE_USERS |-> "ManageUsers", MANAGE_PAYMENTS |-> "ManagePayments",
     APPROVE_TX |-> "ApproveTx", REPORTS |-> "Reports",
     BROADCAST |-> "Broadcast", SETTINGS |-> "Settings",
     MANAGE_ADMINS |-> "ManageAdmins"]

ALL_PERMISSIONS == {Permissions[k] : k \in DOMAIN Permissions}

RoleRow(id, name, permissions) ==
    [id |-> id, name |-> name, permissions |-> permissions]

default_roles ==
    << RoleRow(1, "Super Admin", ALL_PERMISSIONS),
       RoleRow(2, "Finance Manager",
               {Permissions.MANAGE_PAYMENTS, Permissions.APPROVE_TX,
                Permissions.REPORTS}),
       RoleRow(3, "User Manager",
               {Permissions.MANAGE_USERS, Permissions.REPORTS}),
       RoleRow(4, "Support Agent",
               {Permissions.MANAGE_USERS, Permissions.BROADCAST}),
       RoleRow(5, "Viewer", {Permissions.REPORTS}) >>

(***************************************************************************)
(* FSM states (utils/states.py), named as aiogram names them.              *)
(***************************************************************************)
DepositStates ==
    [waiting_for_company |-> "DepositStates:waiting_for_company",
     waiting_for_payment_method |-> "DepositStates:waiting_for_payment_method",
     waiting_for_amount |-> "DepositStates:waiting_for_amount",
     waiting_for_reference |-> "DepositStates:waiting_for_reference",
     waiting_for_confirmation |-> "DepositStates:waiting_for_confirmation"]

WithdrawStates ==
    [waiting_for_company |-> "WithdrawStates:waiting_for_company",
     waiting_for_payment_method |-> "WithdrawStates:waiting_for_payment_method",
     waiting_for_amount |-> "WithdrawStates:waiting_for_amount",
     waiting_for_address |-> "WithdrawStates:waiting_for_address",
     waiting_for_confirmation |-> "WithdrawStates:waiting_for_confirmation"]

ComplaintStates == [waiting_for_text |-> "ComplaintStates:waiting_for_text"]

\* handlers/admin.py
AdminStates == [waiting_for_user_id |-> "AdminStates:waiting_for_user_id"]

AmountStates ==
    {DepositStates.waiting_for_amount, WithdrawStates.waiting_for_amount}

ConfirmationStates ==
    {DepositStates.waiting_for_confirmation,
     WithdrawStates.waiting_for_confirmation}

FlowStates ==
    {DepositStates[k] : k \in DOMAIN DepositStates}
        \cup {WithdrawStates[k] : k \in DOMAIN WithdrawStates}
        \cup {ComplaintStates.waiting_for_text}

\* FSMContext data after state.clear(): no key is set.  company_name and
\* payment_method_name are display copies of the two ids and are left out,
\* and so is the lang key the admin callbacks store next to action.
EmptyData ==
    [request_type |-> Nil, company_id |-> Nil, payment_method_id |-> Nil,
     amount |-> Nil, currency |-> Nil, reference |-> Nil,
     user_withdraw_to |-> Nil, action |-> Nil]

VARIABLES
    companies,   \* companies table, in primary-key order
    payment_methods,  \* payment_methods table, in primary-key order
    users,       \* users table, in primary-key order
    roles,       \* roles table, in primary-key order
    admin_roles, \* admin_roles table, in primary-key order
    state,       \* MemoryStorage: FSM state of each sender
    data,        \* MemoryStorage: FSM data of each sender
    requests,    \* requests table, in primary-key order
    complaints,  \* complaints table, in primary-key order
    audit_log,   \* audit_log table, in primary-key order
    tasks,       \* handler tasks suspended between their storage calls
    reply,       \* last answer sent to each sender
    menus,       \* history: menu buttons (flow starts) handled so far
    irregular,   \* history: updates handled unprompted or during a commit
    draft_no,    \* history: how often each sender entered confirmation
    origin,      \* history: for each request row, the FSM state, the FSM
                 \* data and the draft number its confirm event was
                 \* received with
    faulted,     \* history: some storage call of the run has failed
    broadcast_service,  \* BroadcastService: is_broadcasting, broadcast_queue
    worker,      \* the start_worker task: its position and its locals, and
                 \* (history) the places in user_ids of the recipients of
                 \* the job whose every attempt has failed, the places
                 \* each chunk of the job took and the seconds slept
                 \* between its chunks
    broadcast_log,  \* history: the event-loop clock, the jobs started and
                 \* the jobs finished, in order
    admin_outbox \* history: the notifications bot.send_message was called
                 \* with for the admins, and whether each was delivered

vars ==
    <<companies, payment_methods, users, roles, admin_roles, state, data,
      requests, complaints, audit_log, tasks, reply, menus, irregular,
      draft_no, origin, faulted, broadcast_service, worker, broadcast_log,
      admin_outbox>>

broadcast_vars == <<broadcast_service, worker, broadcast_log>>

Senders == DOMAIN state

\* the worker between two jobs, waiting in broadcast_queue.get()
WorkerIdle ==
    [pc |-> "get", broadcast_data |-> Nil, user_ids |-> <<>>, i |-> 0,
     success_count |-> 0, failed_count |-> 0, sends |-> <<>>,
     exhausted |-> {}, chunks |-> <<>>, pauses |-> <<>>]

\* BroadcastService(bot) and create_task(start_worker()) of main
BroadcastIdle ==
    /\ broadcast_service = [is_broadcasting |-> FALSE, broadcast_queue |-> <<>>]
    /\ worker = WorkerIdle
    /\ broadcast_log = [time |-> 0, started |-> <<>>, finished |-> <<>>]

Init ==
    /\ \E cat \in Catalogues :
         /\ companies = cat.companies
         /\ payment_methods = cat.payment_methods
    /\ users = <<>>
    /\ roles = default_roles
    /\ admin_roles = <<>>
    /\ state = [u \in TelegramIds |-> None]
    /\ data = [u \in TelegramIds |-> EmptyData]
    /\ requests = <<>>
    /\ complaints = <<>>
    /\ audit_log = <<>>
    /\ tasks = {}
    /\ reply = [u \in TelegramIds |-> None]
    /\ menus = 0
    /\ irregular = 0
    /\ draft_no = [u \in TelegramIds |-> 0]
    /\ origin = <<>>
    /\ faulted = FALSE
    /\ BroadcastIdle
    /\ admin_outbox = {}


(***************************************************************************)
(* Queries.                                                                *)
(***************************************************************************)
\* select(Company).where(Company.is_active == True)
ActiveCompanies == {c \in 1..Len(companies) : companies[c].is_active}

\* select(PaymentMethod).where(company_id == c, is_active == True)
ActiveMethodsOf(c) ==
    {p \in 1..Len(payment_methods) :
        payment_methods[p].company_id = c /\ payment_methods[p].is_active}

\* select(User).where(User.telegram_id == u): Nil or Some(row)
UserOf(u) ==
    LET hit == {i \in 1..Len(users) : users[i].telegram_id = u}
    IN  IF hit = {} THEN Nil ELSE Some(users[CHOOSE i \in hit : TRUE])

is_guest_mode(u) == UserOf(u) = Nil \/ ~Get(UserOf(u)).is_registered

\* dict.get(key, default)
GetOr(o, default) == IF o = Nil THEN default ELSE Get(o)

\* variant: the stored data survives
keep(f, u) == f

\* variant: one store for all senders
clear_everyone(f, u) == [v \in DOMAIN f |-> EmptyData]

\* state.clear() on the data store
clear(f, u) == [f EXCEPT ![u] = EmptyData]

(***************************************************************************)
(* Routing.  setup_handlers includes the routers in the order start,       *)
(* user_settings, finance, complaints, admin; inside a router the first    *)
(* handler whose filter matches takes the update.                          *)
(***************************************************************************)
MessageRoute(st, text) ==
    IF text \in ResetTexts THEN "reset_handler"
    ELSE IF text \in DepositTexts THEN "deposit_handler"
    ELSE IF text \in WithdrawTexts THEN "withdraw_handler"
    ELSE IF st \in AmountStates THEN "amount_handler"
    ELSE IF st = DepositStates.waiting_for_reference
    THEN "deposit_reference_handler"
    ELSE IF st = WithdrawStates.waiting_for_address
    THEN "withdraw_address_handler"
    ELSE IF text \in ComplaintTexts THEN "complaint_start_handler"
    ELSE IF st = ComplaintStates.waiting_for_text THEN "complaint_text_handler"
    ELSE IF st = AdminStates.waiting_for_user_id
    THEN "process_user_id_handler"
    ELSE "unhandled"

(***************************************************************************)
(* handlers/start.py                                                       *)
(***************************************************************************)
\* is_super_admin of handlers/admin.py and utils/auth.py
is_super_admin(u) == u \in ADMINS

\* User(...) of register_user (registered, is_admin from the allowlist) and
\* of guest_mode (is_admin left to its column default)
NewUser(u, registered) ==
    [id |-> Len(users) + 1, telegram_id |-> u, is_registered |-> registered,
     language |-> DEFAULT_LANGUAGE, currency |-> DEFAULT_CURRENCY,
     is_admin |-> (registered /\ is_super_admin(u))]

\* AuditLog(...) of create_audit_log; before and after are None or the one
\* value of the dict that the action is about
AuditRow(actor, action, entity, entity_id, before, after) ==
    [id |-> Len(audit_log) + 1, actor_user_id |-> actor, action |-> action,
     entity |-> entity, entity_id |-> entity_id,
     before |-> before, after |-> after]

\* the Reset button.  start.router comes before user_settings.router, so
\* the reset_handler of start.py takes the update in every state and the
\* one of user_settings.py, which calls state.clear(), is never reached.
reset_handler(u, text) ==
    /\ MessageRoute(state[u], text) = "reset_handler"
    /\ UNCHANGED <<broadcast_vars, admin_outbox, companies, payment_methods, roles, admin_roles, faulted,
                   users, state, data, requests, complaints, audit_log, tasks,
                   draft_no, origin>>
    /\ reply' = [reply EXCEPT ![u] = IF UserOf(u) = Nil THEN "please_start"
                                     ELSE "reset_complete"]

\* callback "register": a guest row is upgraded in place; a new sender gets
\* a registered row and then, in a second commit, a create_user audit row
\* whose failure create_audit_log swallows.
register_user(u) ==
    /\ UNCHANGED <<broadcast_vars, admin_outbox, companies, payment_methods, roles, admin_roles, state, data, requests,
                   complaints, tasks, draft_no, origin>>
    /\ IF UserOf(u) # Nil
       THEN IF Get(UserOf(u)).is_registered
            THEN /\ reply' = [reply EXCEPT ![u] = "already_registered"]
                 /\ UNCHANGED <<users, audit_log, faulted>>
            ELSE /\ users' = [users EXCEPT ![Get(UserOf(u)).id].is_registered = TRUE]
                 /\ reply' = [reply EXCEPT ![u] = "registration_complete"]
                 /\ UNCHANGED <<audit_log, faulted>>
       ELSE /\ users' = Append(users, NewUser(u, TRUE))
            /\ reply' = [reply EXCEPT ![u] = "registration_complete"]
            /\ \E audit_ok \in BOOLEAN :
                 /\ audit_log' =
                      IF audit_ok
                      THEN Append(audit_log,
                                  AuditRow(Len(users) + 1, "create_user", "user",
                                           Len(users) + 1, Nil,
                                           Some("registered")))
                      ELSE audit_log
                 /\ faulted' = (faulted \/ ~audit_ok)

\* callback "guest_mode"
guest_mode(u) ==
    /\ UNCHANGED <<broadcast_vars, admin_outbox, companies, payment_methods, roles, admin_roles, faulted, state, data, requests,
                   complaints, audit_log, tasks, draft_no, origin>>
    /\ users' = IF UserOf(u) = Nil THEN Append(users, NewUser(u, FALSE)) ELSE users
    /\ reply' = [reply EXCEPT ![u] = "guest_mode_welcome"]


(***************************************************************************)
(* handlers/finance.py: starting a flow                                    *)
(***************************************************************************)
\* shared body of deposit_handler and withdraw_handler
StartFlow(u, first_state, request_type) ==
    /\ UNCHANGED <<broadcast_vars, admin_outbox, companies, payment_methods, roles, admin_roles, faulted, users, requests, complaints, audit_log, tasks, draft_no,
                   origin>>
    /\ IF is_guest_mode(u)
       THEN /\ reply' = [reply EXCEPT ![u] = "guest_restriction"]
            /\ UNCHANGED <<state, data>>
       ELSE IF ActiveCompanies = {}
       THEN /\ reply' = [reply EXCEPT ![u] = "no_companies"]
            /\ UNCHANGED <<state, data>>
       ELSE /\ state' = [state EXCEPT ![u] = first_state]
            /\ data' = [data EXCEPT ![u].request_type = Some(request_type)]
            /\ reply' = [reply EXCEPT ![u] = "select_company"]

deposit_handler(u) ==
    StartFlow(u, DepositStates.waiting_for_company, "deposit")

withdraw_handler(u) ==
    StartFlow(u, WithdrawStates.waiting_for_company, "withdraw")

(***************************************************************************)
(* handlers/finance.py: the two selection callbacks (no state filter)      *)
(***************************************************************************)
company_selection_handler(u, company_id) ==
    /\ UNCHANGED <<broadcast_vars, admin_outbox, companies, payment_methods, roles, admin_roles, faulted, users, requests, complaints, audit_log, tasks, draft_no,
                   origin>>
    /\ IF UserOf(u) = Nil \/ company_id \notin 1..Len(companies)
       THEN /\ reply' = [reply EXCEPT ![u] = "error"]
            /\ UNCHANGED <<state, data>>
       ELSE IF ActiveMethodsOf(company_id) = {}
       THEN /\ reply' = [reply EXCEPT ![u] = "no_payment_methods"]
            /\ UNCHANGED <<state, data>>
       ELSE /\ data' = [data EXCEPT ![u].company_id = Some(company_id)]
            /\ state' =
                 [state EXCEPT ![u] =
                    IF GetOr(data[u].request_type, "deposit") = "deposit"
                    THEN DepositStates.waiting_for_payment_method
                    ELSE WithdrawStates.waiting_for_payment_method]
            /\ reply' = [reply EXCEPT ![u] = "select_payment_method"]

payment_method_selection_handler(u, payment_method_id) ==
    /\ UNCHANGED <<broadcast_vars, admin_outbox, companies, payment_methods, roles, admin_roles, faulted, users, requests, complaints, audit_log, tasks, draft_no,
                   origin>>
    /\ IF UserOf(u) = Nil \/ payment_method_id \notin 1..Len(payment_methods)
       THEN /\ reply' = [reply EXCEPT ![u] = "error"]
            /\ UNCHANGED <<state, data>>
       ELSE /\ data' = [data EXCEPT ![u].payment_method_id = Some(payment_method_id)]
            /\ state' =
                 [state EXCEPT ![u] =
                    IF GetOr(data[u].request_type, "deposit") = "deposit"
                    THEN DepositStates.waiting_for_amount
                    ELSE WithdrawStates.waiting_for_amount]
            /\ reply' = [reply EXCEPT ![u] = "enter_amount"]

(***************************************************************************)
(* handlers/finance.py: amount_handler                                     *)
(***************************************************************************)
min_amount == Decimal(<<"1", ".", "0", "0">>)
max_amount == Decimal(<<"1", "0", "0", "0", "0", "0", "0", ".", "0", "0">>)
Zero == Decimal(<<"0">>)

\* variant: no upper limit
AmountCheckNoMax(amount_text) ==
    LET amount == Decimal(ReplaceComma(amount_text))
    IN  IF amount.kind \in {"invalid", "nan"} THEN "invalid_amount_format"
        ELSE IF ~DecGreater(amount, Zero) THEN "invalid_amount_format"
        ELSE IF DecLess(amount, min_amount) THEN "amount_too_small"
        ELSE "ok"

\* variant: no lower limit
AmountCheckNoMin(amount_text) ==
    LET amount == Decimal(ReplaceComma(amount_text))
    IN  IF amount.kind \in {"invalid", "nan"} THEN "invalid_amount_format"
        ELSE IF ~DecGreater(amount, Zero) THEN "invalid_amount_format"
        ELSE IF DecGreater(amount, max_amount) THEN "amount_too_large"
        ELSE "ok"

\* Validation of the stripped text: the reply key of the rejection, or "ok".
\* Decimal() raises InvalidOperation on a malformed text, `amount <= 0`
\* raises it on NaN, and a non-positive amount raises ValueError.
AmountCheck(amount_text) ==
    LET amount == Decimal(ReplaceComma(amount_text))
    IN  IF amount.kind \in {"invalid", "nan"} THEN "invalid_amount_format"
        ELSE IF ~DecGreater(amount, Zero) THEN "invalid_amount_format"
        ELSE IF DecLess(amount, min_amount) THEN "amount_too_small"
        ELSE IF DecGreater(amount, max_amount) THEN "amount_too_large"
        ELSE "ok"

amount_handler(u, text) ==
    /\ MessageRoute(state[u], text) = "amount_handler"
    /\ UNCHANGED <<broadcast_vars, admin_outbox, companies, payment_methods, roles, admin_roles, faulted, users, requests, complaints, audit_log, tasks, draft_no,
                   origin>>
    /\ LET amount_text == Strip(text)
           user == UserOf(u)
       IN  IF user = Nil
           THEN /\ reply' = [reply EXCEPT ![u] = "please_start"]
                /\ UNCHANGED <<state, data>>
           ELSE IF amount_text \in CancelTexts
           THEN /\ state' = [state EXCEPT ![u] = None]
                /\ data' = clear(data, u)
                /\ reply' = [reply EXCEPT ![u] = "cancelled"]
           ELSE IF AmountCheck(amount_text) # "ok"
           THEN /\ reply' = [reply EXCEPT ![u] = AmountCheck(amount_text)]
                /\ UNCHANGED <<state, data>>
           ELSE /\ data' =
                     [data EXCEPT
                        ![u].amount =
                            Some(DecimalStr(Decimal(ReplaceComma(amount_text)))),
                        ![u].currency = Some(Get(user).currency)]
                /\ IF GetOr(data[u].request_type, "deposit") = "deposit"
                   THEN /\ state' = [state EXCEPT
                                       ![u] = DepositStates.waiting_for_reference]
                        /\ reply' = [reply EXCEPT ![u] = "enter_reference"]
                   ELSE /\ state' = [state EXCEPT
                                       ![u] = WithdrawStates.waiting_for_address]
                        /\ reply' = [reply EXCEPT ![u] = "enter_withdrawal_address"]

(***************************************************************************)
(* handlers/finance.py: reference / address                                *)
(***************************************************************************)
deposit_reference_handler(u, text) ==
    /\ MessageRoute(state[u], text) = "deposit_reference_handler"
    /\ UNCHANGED <<broadcast_vars, admin_outbox, companies, payment_methods, roles, admin_roles, faulted, users, requests, complaints, audit_log, tasks, origin>>
    /\ LET reference == Strip(text)
       IN  IF UserOf(u) = Nil
           THEN /\ reply' = [reply EXCEPT ![u] = "please_start"]
                /\ UNCHANGED <<state, data, draft_no>>
           ELSE IF reference \in CancelTexts
           THEN /\ state' = [state EXCEPT ![u] = None]
                /\ data' = clear(data, u)
                /\ reply' = [reply EXCEPT ![u] = "cancelled"]
                /\ UNCHANGED draft_no
           ELSE /\ data' = [data EXCEPT ![u].reference = Some(reference)]
                /\ state' = [state EXCEPT
                               ![u] = DepositStates.waiting_for_confirmation]
                /\ reply' = [reply EXCEPT ![u] = "request_confirmation"]
                /\ draft_no' = [draft_no EXCEPT ![u] = @ + 1]

withdraw_address_handler(u, text) ==
    /\ MessageRoute(state[u], text) = "withdraw_address_handler"
    /\ UNCHANGED <<broadcast_vars, admin_outbox, companies, payment_methods, roles, admin_roles, faulted, users, requests, complaints, audit_log, tasks, origin>>
    /\ LET address == Strip(text)
       IN  IF UserOf(u) = Nil
           THEN /\ reply' = [reply EXCEPT ![u] = "please_start"]
                /\ UNCHANGED <<state, data, draft_no>>
           ELSE IF address \in CancelTexts
           THEN /\ state' = [state EXCEPT ![u] = None]
                /\ data' = clear(data, u)
                /\ reply' = [reply EXCEPT ![u] = "cancelled"]
                /\ UNCHANGED draft_no
           ELSE /\ data' = [data EXCEPT ![u].user_withdraw_to = Some(address)]
                /\ state' = [state EXCEPT
                               ![u] = WithdrawStates.waiting_for_confirmation]
                /\ reply' = [reply EXCEPT ![u] = "request_confirmation"]
                /\ draft_no' = [draft_no EXCEPT ![u] = @ + 1]


(***************************************************************************)
(* handlers/finance.py: confirm_request_handler                            *)
(***************************************************************************)
TokensInUse ==
    {requests[i].client_token : i \in 1..Len(requests)}
        \cup {Get(t.row).client_token : t \in {x \in tasks : x.kind = "request"}}

\* variant: a token derived from the number of stored rows
uuid4Sequential == Len(requests) + 1

\* str(uuid.uuid4()): a value no earlier call returned
uuid4 == CHOOSE n \in 1..(Len(requests) + Cardinality(tasks) + 1) :
            /\ n \notin TokensInUse
            /\ \A m \in 1..(n - 1) : m \in TokensInUse

\* int(None) and Decimal(None) raise TypeError
Constructible(d) ==
    /\ d.company_id # Nil
    /\ d.payment_method_id # Nil
    /\ d.amount # Nil
    /\ Decimal(Get(d.amount)).kind # "invalid"

\* variant: the flow type is not read from the FSM data
NewRequestDeposit(user, d, client_token) ==
    [id |-> 0,
     user_id |-> user.id,
     company_id |-> Get(d.company_id),
     payment_method_id |-> Get(d.payment_method_id),
     request_type |-> "deposit",
     amount |-> Decimal(Get(d.amount)),
     currency |-> GetOr(d.currency, user.currency),
     reference |-> d.reference,
     user_withdraw_to |-> d.user_withdraw_to,
     status |-> "pending",
     client_token |-> client_token]

\* Request(...) as built from the FSM data; id is set by the commit
NewRequest(user, d, client_token) ==
    [id |-> 0,
     user_id |-> user.id,
     company_id |-> Get(d.company_id),
     payment_method_id |-> Get(d.payment_method_id),
     request_type |->
        IF d.request_type = Some("deposit") THEN "deposit" ELSE "withdraw",
     amount |-> Decimal(Get(d.amount)),
     currency |-> GetOr(d.currency, user.currency),
     reference |-> d.reference,
     user_withdraw_to |-> d.user_withdraw_to,
     status |-> "pending",
     client_token |-> client_token]

\* A handler task at its first storage call: the row it built, and the FSM
\* state, FSM data and draft number it read.  no tells apart the tasks that
\* run at the same time.
NewTask(kind, u, row) ==
    [kind |-> kind, u |-> u, pc |-> "commit", row |-> Some(row),
     id |-> 0, st |-> state[u], data |-> data[u], draft |-> draft_no[u],
     no |-> CHOOSE n \in 1..(Cardinality(tasks) + 1) :
                \A t \in tasks : t.no # n]

\* callback "confirm_yes" (no state filter): lines 437-469, up to the first
\* storage write
confirm_request_handler(u) ==
    /\ UNCHANGED <<broadcast_vars, admin_outbox, companies, payment_methods, roles, admin_roles, faulted, users, state, data, requests, complaints, audit_log,
                   draft_no, origin>>
    /\ IF UserOf(u) = Nil \/ ~Constructible(data[u])
       THEN /\ reply' = [reply EXCEPT ![u] = "error"]
            /\ UNCHANGED tasks
       ELSE /\ tasks' = tasks \cup
                 {NewTask("request", u,
                          NewRequest(Get(UserOf(u)), data[u], uuid4))}
            /\ UNCHANGED reply

\* variant: the failure branch clears the sender's context
CommitRequestClearing(t) ==
    /\ t.kind = "request" /\ t.pc = "commit"
    /\ UNCHANGED <<broadcast_vars, admin_outbox, companies, payment_methods, roles, admin_roles, users, complaints, audit_log, draft_no>>
    /\ \E ok \in BOOLEAN :
         /\ faulted' = (faulted \/ ~ok)
         /\ IF ok
            THEN /\ requests' =
                      Append(requests, [Get(t.row) EXCEPT !.id = Len(requests) + 1])
                 /\ origin' = Append(origin, [st |-> t.st, data |-> t.data,
                                               draft |-> t.draft])
                 /\ tasks' = (tasks \ {t}) \cup
                      {[t EXCEPT !.pc = "audit", !.id = Len(requests) + 1]}
                 /\ UNCHANGED <<reply, state, data>>
            ELSE /\ tasks' = tasks \ {t}
                 /\ reply' = [reply EXCEPT ![t.u] = "error"]
                 /\ state' = [state EXCEPT ![t.u] = None]
                 /\ data' = clear(data, t.u)
                 /\ UNCHANGED <<requests, origin>>

\* session.add(new_request); await session.commit()  (lines 471-472); a
\* failure is caught at line 504: the error is answered, nothing is cleared
CommitRequest(t) ==
    /\ t.kind = "request" /\ t.pc = "commit"
    /\ UNCHANGED <<broadcast_vars, admin_outbox, companies, payment_methods, roles, admin_roles, users, state, data, complaints, audit_log, draft_no>>
    /\ \E ok \in BOOLEAN :
         /\ faulted' = (faulted \/ ~ok)
         /\ IF ok
            THEN /\ requests' =
                      Append(requests, [Get(t.row) EXCEPT !.id = Len(requests) + 1])
                 /\ origin' = Append(origin, [st |-> t.st, data |-> t.data,
                                               draft |-> t.draft])
                 /\ tasks' = (tasks \ {t}) \cup
                      {[t EXCEPT !.pc = "audit", !.id = Len(requests) + 1]}
                 /\ UNCHANGED reply
            ELSE /\ tasks' = tasks \ {t}
                 /\ reply' = [reply EXCEPT ![t.u] = "error"]
                 /\ UNCHANGED <<requests, origin>>

(***************************************************************************)
(* The rest of both commit handlers (finance.py 474-502, complaints.py     *)
(* 109-124): create_audit_log of utils/auth.py in a second commit, whose   *)
(* failure is logged, rolled back and swallowed; then state.clear() and    *)
(* the answer.  After the rollback of a failed audit commit the entity is  *)
(* expired, so formatting its id into the answer may raise.  The complaint *)
(* handler then calls notify_admins_new_complaint; the request handler has *)
(* the call commented out (finance.py 498-499).                            *)
(***************************************************************************)
Created(kind) ==
    IF kind = "request" THEN "request_created_successfully"
    ELSE "complaint_submitted"

\* the columns of Complaint (models.py)
ComplaintColumns ==
    {"id", "user_id", "text", "attachment_path", "status", "admin_reply",
     "resolved_by", "created_at", "updated_at"}

\* notify_admins_new_complaint as the module binds it: the definition at the
\* end of complaints.py, which replaces the earlier one of the same name.
\* Its text reads complaint.message; reading an attribute the row does not
\* have raises, and the outer except logs it before any admin is tried.
\* Past that, one send per admin, a failed one logged and passed over.
notify_admins_new_complaint(complaint_id, delivered) ==
    IF "message" \notin ComplaintColumns
    THEN {}
    ELSE {[admin_id |-> a, entity |-> "complaint", entity_id |-> complaint_id,
           delivered |-> delivered[a]] : a \in ADMINS}

\* variant: the audit row replaces the rows stored before
create_audit_log_replacing(t) ==
    /\ t.pc = "audit"
    /\ UNCHANGED <<broadcast_vars, companies, payment_methods, roles, admin_roles, users, requests, complaints, draft_no, origin>>
    /\ \E ok \in BOOLEAN :
         /\ faulted' = (faulted \/ ~ok)
         /\ audit_log' =
              IF ok /\ UserOf(t.u) # Nil
              THEN <<AuditRow(Get(UserOf(t.u)).id, "create_" \o t.kind,
                              t.kind, t.id, Nil, Some("pending"))>>
              ELSE audit_log
         /\ \E r \in (IF ok THEN {Created(t.kind)}
                               ELSE {Created(t.kind), "error"}) :
              /\ reply' = [reply EXCEPT ![t.u] = r]
              /\ IF t.kind = "complaint" /\ r # "error"
                 THEN \E delivered \in [ADMINS -> BOOLEAN] :
                        admin_outbox' = admin_outbox \cup
                            notify_admins_new_complaint(t.id, delivered)
                 ELSE UNCHANGED admin_outbox
    /\ state' = [state EXCEPT ![t.u] = None]
    /\ data' = clear(data, t.u)
    /\ tasks' = tasks \ {t}

create_audit_log(t) ==
    /\ t.pc = "audit"
    /\ UNCHANGED <<broadcast_vars, companies, payment_methods, roles, admin_roles, users, requests, complaints, draft_no, origin>>
    /\ \E ok \in BOOLEAN :
         /\ faulted' = (faulted \/ ~ok)
         /\ audit_log' =
              IF ok /\ UserOf(t.u) # Nil
              THEN Append(audit_log,
                          AuditRow(Get(UserOf(t.u)).id, "create_" \o t.kind,
                                   t.kind, t.id, Nil, Some("pending")))
              ELSE audit_log
         /\ \E r \in (IF ok THEN {Created(t.kind)}
                               ELSE {Created(t.kind), "error"}) :
              /\ reply' = [reply EXCEPT ![t.u] = r]
              /\ IF t.kind = "complaint" /\ r # "error"
                 THEN \E delivered \in [ADMINS -> BOOLEAN] :
                        admin_outbox' = admin_outbox \cup
                            notify_admins_new_complaint(t.id, delivered)
                 ELSE UNCHANGED admin_outbox
    /\ state' = [state EXCEPT ![t.u] = None]
    /\ data' = clear(data, t.u)
    /\ tasks' = tasks \ {t}

\* callback "confirm_no"
cancel_request_handler(u) ==
    /\ UNCHANGED <<broadcast_vars, admin_outbox, companies, payment_methods, roles, admin_roles, faulted, users, requests, complaints, audit_log, tasks, draft_no,
                   origin>>
    /\ IF UserOf(u) = Nil
       THEN /\ reply' = [reply EXCEPT ![u] = "error"]
            /\ UNCHANGED <<state, data>>
       ELSE /\ state' = [state EXCEPT ![u] = None]
            /\ data' = clear(data, u)
            /\ reply' = [reply EXCEPT ![u] = "cancelled"]

\* callback "cancel"
cancel_callback_handler(u) ==
    /\ UNCHANGED <<broadcast_vars, admin_outbox, companies, payment_methods, roles, admin_roles, faulted, users, requests, complaints, audit_log, tasks, draft_no,
                   origin>>
    /\ state' = [state EXCEPT ![u] = None]
    /\ data' = clear(data, u)
    /\ reply' = [reply EXCEPT ![u] = "cancelled"]

(***************************************************************************)
(* handlers/complaints.py                                                  *)
(***************************************************************************)
MinComplaintLen == 10

complaint_start_handler(u) ==
    /\ UNCHANGED <<broadcast_vars, admin_outbox, companies, payment_methods, roles, admin_roles, faulted, users, data, requests, complaints, audit_log, tasks,
                   draft_no, origin>>
    /\ IF is_guest_mode(u)
       THEN /\ reply' = [reply EXCEPT ![u] = "guest_restriction"]
            /\ UNCHANGED state
       ELSE /\ state' = [state EXCEPT ![u] = ComplaintStates.waiting_for_text]
            /\ reply' = [reply EXCEPT ![u] = "complaint_text"]

\* variant: the complaint is stored as resolved
NewComplaintResolved(user, complaint_text) ==
    [id |-> 0, user_id |-> user.id, text |-> complaint_text,
     status |-> "resolved"]

NewComplaint(user, complaint_text) ==
    [id |-> 0, user_id |-> user.id, text |-> complaint_text,
     status |-> "pending"]

\* lines 69-104, up to the first storage write
complaint_text_handler(u, text) ==
    /\ MessageRoute(state[u], text) = "complaint_text_handler"
    /\ UNCHANGED <<broadcast_vars, admin_outbox, companies, payment_methods, roles, admin_roles, faulted, users, requests, complaints, audit_log, draft_no, origin>>
    /\ LET complaint_text == Strip(text)
       IN  IF UserOf(u) = Nil
           THEN /\ reply' = [reply EXCEPT ![u] = "please_start"]
                /\ UNCHANGED <<state, data, tasks>>
           ELSE IF complaint_text \in CancelTexts
           THEN /\ state' = [state EXCEPT ![u] = None]
                /\ data' = clear(data, u)
                /\ reply' = [reply EXCEPT ![u] = "cancelled"]
                /\ UNCHANGED tasks
           ELSE IF Len(complaint_text) < MinComplaintLen
           THEN /\ reply' = [reply EXCEPT ![u] = "complaint_too_short"]
                /\ UNCHANGED <<state, data, tasks>>
           ELSE /\ tasks' = tasks \cup
                     {NewTask("complaint", u,
                              NewComplaint(Get(UserOf(u)), complaint_text))}
                /\ UNCHANGED <<state, data, reply>>

\* session.add(new_complaint); await session.commit()  (lines 106-107)
CommitComplaint(t) ==
    /\ t.kind = "complaint" /\ t.pc = "commit"
    /\ UNCHANGED <<broadcast_vars, admin_outbox, companies, payment_methods, roles, admin_roles, users, state, data, requests, audit_log, draft_no, origin>>
    /\ \E ok \in BOOLEAN :
         /\ faulted' = (faulted \/ ~ok)
         /\ IF ok
            THEN /\ complaints' =
                      Append(complaints,
                             [Get(t.row) EXCEPT !.id = Len(complaints) + 1])
                 /\ tasks' = (tasks \ {t}) \cup
                      {[t EXCEPT !.pc = "audit", !.id = Len(complaints) + 1]}
                 /\ UNCHANGED reply
            ELSE /\ tasks' = tasks \ {t}
                 /\ reply' = [reply EXCEPT ![t.u] = "error"]
                 /\ UNCHANGED complaints

(***************************************************************************)
(* utils/auth.py: get_user_permissions.  The permissions come back as a    *)
(* list built from a set; the model keeps the set.                         *)
(***************************************************************************)
AdminRoleRow(id, user_id, role_id) ==
    [id |-> id, user_id |-> user_id, role_id |-> role_id]

\* select(Role).join(AdminRole).where(AdminRole.user_id == user_id)
RolesOf(user_id) ==
    {r \in 1..Len(roles) :
        \E a \in 1..Len(admin_roles) :
            /\ admin_roles[a].user_id = user_id
            /\ admin_roles[a].role_id = roles[r].id}

\* variant: the allowlist is not consulted
get_user_permissions_stored(telegram_id) ==
    LET user == UserOf(telegram_id)
    IN  IF user = Nil \/ ~Get(user).is_admin THEN {}
        ELSE UNION {roles[r].permissions : r \in RolesOf(Get(user).id)}

\* variant: the admin flag of the users row is not consulted
get_user_permissions_unflagged(telegram_id) ==
    LET user == UserOf(telegram_id)
    IN  IF is_super_admin(telegram_id) THEN ALL_PERMISSIONS
        ELSE IF user = Nil THEN {}
        ELSE UNION {roles[r].permissions : r \in RolesOf(Get(user).id)}

get_user_permissions(telegram_id) ==
    LET user == UserOf(telegram_id)
    IN  IF is_super_admin(telegram_id) THEN ALL_PERMISSIONS
        ELSE IF user = Nil \/ ~Get(user).is_admin THEN {}
        ELSE UNION {roles[r].permissions : r \in RolesOf(Get(user).id)}

has_permission(telegram_id, permission) ==
    permission \in get_user_permissions(telegram_id)

(***************************************************************************)
(* handlers/admin.py: granting and revoking the admin flag                 *)
(***************************************************************************)
\* is_admin of handlers/admin.py: allowlisted, or a users row flagged admin
is_admin(u) ==
    u \in ADMINS \/ \E i \in 1..Len(users) :
                        users[i].telegram_id = u /\ users[i].is_admin

\* select(Request).where(status == "pending").order_by(created_at.desc())
\* .limit(10): the ids, newest first
PendingRequests ==
    LET pending == {i \in 1..Len(requests) : requests[i].status = "pending"}
        newest(n) == {i \in pending : Cardinality({j \in pending : j > i}) < n}
    IN  newest(10)

\* callback "admin_pending_requests"
admin_pending_requests_handler(u) ==
    /\ UNCHANGED <<broadcast_vars, admin_outbox, companies, payment_methods, roles, admin_roles, faulted,
                   users, state, data, requests, complaints, audit_log, tasks,
                   draft_no, origin>>
    /\ reply' = [reply EXCEPT ![u] =
                    IF ~is_admin(u) THEN "unauthorized"
                    ELSE IF PendingRequests = {} THEN "no_pending_requests"
                    ELSE "pending_requests"]

\* variant: the callback does not check the allowlist
StartAdminActionUnchecked(u, action) ==
    /\ UNCHANGED <<broadcast_vars, admin_outbox, companies, payment_methods, roles, admin_roles, faulted,
                   users, requests, complaints, audit_log, tasks, draft_no,
                   origin>>
    /\ state' = [state EXCEPT ![u] = AdminStates.waiting_for_user_id]
    /\ data' = [data EXCEPT ![u].action = Some(action)]
    /\ reply' = [reply EXCEPT ![u] = "enter_user_id"]

\* shared body of the callbacks admin_add_permanent, admin_add_temporary and
\* admin_remove_admin
StartAdminAction(u, action) ==
    /\ UNCHANGED <<broadcast_vars, admin_outbox, companies, payment_methods, roles, admin_roles, faulted,
                   users, requests, complaints, audit_log, tasks, draft_no,
                   origin>>
    /\ IF ~is_super_admin(u)
       THEN /\ reply' = [reply EXCEPT ![u] = "unauthorized"]
            /\ UNCHANGED <<state, data>>
       ELSE /\ state' = [state EXCEPT ![u] = AdminStates.waiting_for_user_id]
            /\ data' = [data EXCEPT ![u].action = Some(action)]
            /\ reply' = [reply EXCEPT ![u] = "enter_user_id"]

admin_add_permanent_handler(u) == StartAdminAction(u, "add_permanent")

admin_add_temporary_handler(u) == StartAdminAction(u, "add_temporary")

admin_remove_admin_handler(u) == StartAdminAction(u, "remove_admin")

\* int(text): Nil when it raises ValueError.  The grammar modelled is
\* [sign] digits, blanks around it ignored.
int(text) ==
    LET t == Strip(text)
        neg == t # <<>> /\ Head(t) = "-"
        ds == IF t # <<>> /\ Head(t) \in {"-", "+"} THEN Tail(t) ELSE t
    IN  IF ds = <<>> \/ \E i \in 1..Len(ds) : ds[i] \notin Digits THEN Nil
        ELSE Some(IF neg THEN 0 - DigitsToInt(ds) ELSE DigitsToInt(ds))

\* The columns AuditLog(...) accepts as keywords (models.py), and the
\* keywords log_admin_action passes: the declarative constructor raises
\* TypeError on a keyword that is no attribute of the class.
AuditLogColumns ==
    {"id", "actor_user_id", "action", "entity", "entity_id", "before",
     "after", "created_at", "actor_user"}

log_admin_action_keywords ==
    {"action", "performed_by", "target_user_id", "details"}

log_admin_action_raises == ~(log_admin_action_keywords \subseteq AuditLogColumns)

\* variant: an allowlisted target is not protected
cannot_remove_nobody(target_user_id) == FALSE

\* line 555: `if target_user_id in ADMINS`
cannot_remove_super_admin(target_user_id) == target_user_id \in ADMINS

\* target_user.is_admin = flag; commit; log_admin_action; answer; clear
\* (lines 520-530, 540-550, 566-579).  A failed commit and the TypeError of
\* log_admin_action both end in the except block at 581: the error is
\* answered and the state is cleared.  The audit row is written as
\* log_admin_action would write it if its constructor did not raise.
SetAdminFlag(u, target, flag, action) ==
    /\ state' = [state EXCEPT ![u] = None]
    /\ data' = clear(data, u)
    /\ \E ok \in BOOLEAN :
         /\ faulted' = (faulted \/ ~ok)
         /\ IF ~ok
            THEN /\ reply' = [reply EXCEPT ![u] = "error"]
                 /\ UNCHANGED <<users, audit_log>>
            ELSE /\ users' = [users EXCEPT ![target.id].is_admin = flag]
                 /\ IF log_admin_action_raises
                    THEN /\ reply' = [reply EXCEPT ![u] = "error"]
                         /\ UNCHANGED audit_log
                    ELSE /\ audit_log' =
                              Append(audit_log,
                                     AuditRow(u, action, "user", target.id,
                                              Nil, Nil))
                         /\ reply' = [reply EXCEPT ![u] =
                                         IF flag THEN "admin_added_successfully"
                                         ELSE "admin_removed_successfully"]

\* message in AdminStates.waiting_for_user_id
process_user_id_handler(u, text) ==
    /\ MessageRoute(state[u], text) = "process_user_id_handler"
    /\ UNCHANGED <<broadcast_vars, admin_outbox, companies, payment_methods, roles, admin_roles, requests,
                   complaints, tasks, draft_no, origin>>
    /\ LET action == data[u].action
           target_user_id == int(text)
           target_user == IF target_user_id = Nil THEN Nil
                          ELSE UserOf(Get(target_user_id))
           Answer(key, cleared) ==
               /\ reply' = [reply EXCEPT ![u] = key]
               /\ state' = IF cleared THEN [state EXCEPT ![u] = None] ELSE state
               /\ data' = IF cleared THEN clear(data, u) ELSE data
               /\ UNCHANGED <<users, audit_log, faulted>>
       IN  IF target_user_id = Nil THEN Answer("error", FALSE)
           ELSE IF target_user = Nil THEN Answer("user_not_found", FALSE)
           ELSE IF ~Get(target_user).is_registered
           THEN Answer("user_not_registered", FALSE)
           ELSE IF action \in {Some("add_permanent"), Some("add_temporary")}
           THEN IF Get(target_user).is_admin \/ Get(target_user_id) \in ADMINS
                THEN Answer("user_already_admin", TRUE)
                ELSE SetAdminFlag(u, Get(target_user), TRUE,
                                  Get(action) \o "_admin")
           ELSE IF action = Some("remove_admin")
           THEN IF cannot_remove_super_admin(Get(target_user_id))
                THEN Answer("cannot_remove_super_admin", TRUE)
                ELSE IF ~Get(target_user).is_admin
                THEN Answer("user_not_admin", TRUE)
                ELSE SetAdminFlag(u, Get(target_user), FALSE, "remove_admin")
           ELSE Answer(reply[u], TRUE)

(***************************************************************************)
(* handlers/user_settings.py: the language and currency callbacks.  The    *)
(* setting is committed first; create_audit_log then commits the audit row *)
(* on its own and swallows a failure.                                      *)
(***************************************************************************)
ChangeSetting(u, action, old, new, changed, done) ==
    /\ \E ok \in BOOLEAN :
         IF ~ok
         THEN /\ reply' = [reply EXCEPT ![u] = "error"]
              /\ faulted' = TRUE
              /\ UNCHANGED <<users, audit_log>>
         ELSE /\ users' = changed
              /\ reply' = [reply EXCEPT ![u] = done]
              /\ \E audit_ok \in BOOLEAN :
                   /\ faulted' = (faulted \/ ~audit_ok)
                   /\ audit_log' =
                        IF audit_ok
                        THEN Append(audit_log,
                                    AuditRow(Get(UserOf(u)).id, action, "user",
                                             Get(UserOf(u)).id, Some(old),
                                             Some(new)))
                        ELSE audit_log

\* callback "lang_<code>"
language_callback_handler(u, lang_code) ==
    /\ UNCHANGED <<broadcast_vars, admin_outbox, companies, payment_methods, roles, admin_roles, state, data,
                   requests, complaints, tasks, draft_no, origin>>
    /\ IF lang_code \notin SUPPORTED_LANGUAGES \/ UserOf(u) = Nil
       THEN /\ reply' = [reply EXCEPT ![u] = "error"]
            /\ UNCHANGED <<users, audit_log, faulted>>
       ELSE LET user == Get(UserOf(u))
            IN  ChangeSetting(u, "change_language", user.language, lang_code,
                              [users EXCEPT ![user.id].language = lang_code],
                              "language_changed")

\* callback "currency_<code>": the code is stored as received
currency_callback_handler(u, currency_code) ==
    /\ UNCHANGED <<broadcast_vars, admin_outbox, companies, payment_methods, roles, admin_roles, state, data,
                   requests, complaints, tasks, draft_no, origin>>
    /\ IF UserOf(u) = Nil
       THEN /\ reply' = [reply EXCEPT ![u] = "error"]
            /\ UNCHANGED <<users, audit_log, faulted>>
       ELSE LET user == Get(UserOf(u))
            IN  ChangeSetting(u, "change_currency", user.currency,
                              currency_code,
                              [users EXCEPT ![user.id].currency = currency_code],
                              "currency_changed")

(***************************************************************************)
(* The sender's side.  A menu button or an inline button is prompted when  *)
(* the keyboard sent with the current state carries it (utils/keyboards.py *)
(* and the reply_markup of each answer).  The handlers do not check this,  *)
(* and aiogram runs every update in its own task, so an update can also    *)
(* arrive unprompted (the button of an old message or of another member's  *)
(* message in a group chat, a menu text typed mid-flow) or while a commit  *)
(* handler of an earlier update is still suspended.  Such updates are the  *)
(* irregular ones; a run holds at most MaxIrregular of them and at most    *)
(* MaxFlows menu buttons.                                                  *)
(***************************************************************************)
Prompted(u, kind, arg) ==
    CASE kind = "menu" -> state[u] = None
      [] kind = "company" ->
            /\ state[u] \in {DepositStates.waiting_for_company,
                             WithdrawStates.waiting_for_company}
            /\ arg \in ActiveCompanies
      [] kind = "payment" ->
            /\ state[u] \in {DepositStates.waiting_for_payment_method,
                             WithdrawStates.waiting_for_payment_method}
            /\ data[u].company_id # Nil
            /\ arg \in ActiveMethodsOf(Get(data[u].company_id))
      [] kind = "confirm" -> state[u] \in ConfirmationStates
      [] kind = "cancel" ->
            state[u] \in {DepositStates.waiting_for_company,
                          WithdrawStates.waiting_for_company,
                          DepositStates.waiting_for_payment_method,
                          WithdrawStates.waiting_for_payment_method}
      [] OTHER -> TRUE

Arrives(u, kind, arg) ==
    /\ IF kind = "menu"
       THEN menus < MaxFlows /\ menus' = menus + 1
       ELSE UNCHANGED menus
    /\ IF Prompted(u, kind, arg) /\ tasks = {}
       THEN UNCHANGED irregular
       ELSE /\ irregular < MaxIrregular
            /\ irregular' = irregular + 1

Internal == UNCHANGED <<menus, irregular>>

(***************************************************************************)
(* Specification                                                           *)
(***************************************************************************)
Next ==
    \/ \E u \in Senders : register_user(u) /\ Arrives(u, "start", 0)
    \/ \E u \in Senders : guest_mode(u) /\ Arrives(u, "start", 0)
    \/ \E u \in Senders : deposit_handler(u) /\ Arrives(u, "menu", 0)
    \/ \E u \in Senders : withdraw_handler(u) /\ Arrives(u, "menu", 0)
    \/ \E u \in Senders, c \in CompanyIds :
         company_selection_handler(u, c) /\ Arrives(u, "company", c)
    \/ \E u \in Senders, p \in PaymentMethodIds :
         payment_method_selection_handler(u, p) /\ Arrives(u, "payment", p)
    \/ \E u \in Senders, text \in AmountTexts \cup CancelTexts \cup ComplaintTexts :
         amount_handler(u, text) /\ Arrives(u, "text", 0)
    \/ \E u \in Senders, text \in ReferenceTexts \cup CancelTexts :
         deposit_reference_handler(u, text) /\ Arrives(u, "text", 0)
    \/ \E u \in Senders, text \in AddressTexts \cup CancelTexts :
         withdraw_address_handler(u, text) /\ Arrives(u, "text", 0)
    \/ \E u \in Senders : confirm_request_handler(u) /\ Arrives(u, "confirm", 0)
    \/ \E t \in tasks : CommitRequest(t) /\ Internal
    \/ \E t \in tasks : create_audit_log(t) /\ Internal
    \/ \E u \in Senders : cancel_request_handler(u) /\ Arrives(u, "confirm", 0)
    \/ \E u \in Senders : cancel_callback_handler(u) /\ Arrives(u, "cancel", 0)
    \/ \E u \in Senders : complaint_start_handler(u) /\ Arrives(u, "menu", 0)
    \/ \E u \in Senders, text \in ComplaintBodies \cup CancelTexts :
         complaint_text_handler(u, text) /\ Arrives(u, "text", 0)
    \/ \E t \in tasks : CommitComplaint(t) /\ Internal
    \/ \E u \in Senders, text \in ResetTexts :
         reset_handler(u, text) /\ Arrives(u, "reset", 0)

Spec == Init /\ [][Next]_vars

(***************************************************************************)
(* Accounts: the admin flag and the permissions of the users.  Two         *)
(* senders, the allowlisted one and an ordinary one.  No handler writes    *)
(* the admin_roles table; a run starts from a database whose admin_roles   *)
(* rows, if any, link the registered users row of one sender to default    *)
(* roles.  That row is as register_user stores it.                         *)
(***************************************************************************)
AccountIds == {900, 101}

UserIdTexts ==
    { <<"9", "0", "0">>, <<" ", "1", "0", "1">>, <<"1", "0", "2">>,
      <<"a", "b", "c">> }

StoredUser(u) ==
    [id |-> 1, telegram_id |-> u, is_registered |-> TRUE,
     language |-> DEFAULT_LANGUAGE, currency |-> DEFAULT_CURRENCY,
     is_admin |-> is_super_admin(u)]

StoredAudit ==
    [id |-> 1, actor_user_id |-> 1, action |-> "create_user",
     entity |-> "user", entity_id |-> 1, before |-> Nil,
     after |-> Some("registered")]

Databases ==
    { [users |-> <<>>, admin_roles |-> <<>>, audit_log |-> <<>>],
      [users |-> <<StoredUser(101)>>, audit_log |-> <<StoredAudit>>,
       admin_roles |-> <<AdminRoleRow(1, 1, 1)>>],
      [users |-> <<StoredUser(101)>>, audit_log |-> <<StoredAudit>>,
       admin_roles |-> <<AdminRoleRow(1, 1, 2), AdminRoleRow(2, 1, 4)>>],
      [users |-> <<StoredUser(900)>>, audit_log |-> <<StoredAudit>>,
       admin_roles |-> <<AdminRoleRow(1, 1, 5)>>] }

AccountInit ==
    /\ \E db \in Databases :
         /\ users = db.users
         /\ admin_roles = db.admin_roles
         /\ audit_log = db.audit_log
    /\ roles = default_roles
    /\ companies = <<CompanyRow(1, TRUE)>>
    /\ payment_methods = <<MethodRow(1, 1, TRUE)>>
    /\ state = [u \in AccountIds |-> None]
    /\ data = [u \in AccountIds |-> EmptyData]
    /\ requests = <<>>
    /\ complaints = <<>>
    /\ tasks = {}
    /\ reply = [u \in AccountIds |-> None]
    /\ menus = 0
    /\ irregular = 0
    /\ draft_no = [u \in AccountIds |-> 0]
    /\ origin = <<>>
    /\ faulted = FALSE
    /\ BroadcastIdle
    /\ admin_outbox = {}

AccountNext ==
    \/ \E u \in Senders : register_user(u) /\ Arrives(u, "start", 0)
    \/ \E u \in Senders : guest_mode(u) /\ Arrives(u, "start", 0)
    \/ \E u \in Senders :
         admin_add_permanent_handler(u) /\ Arrives(u, "admin", 0)
    \/ \E u \in Senders :
         admin_add_temporary_handler(u) /\ Arrives(u, "admin", 0)
    \/ \E u \in Senders :
         admin_remove_admin_handler(u) /\ Arrives(u, "admin", 0)
    \/ \E u \in Senders, text \in UserIdTexts :
         process_user_id_handler(u, text) /\ Arrives(u, "text", 0)
    \/ \E u \in Senders :
         admin_pending_requests_handler(u) /\ Arrives(u, "admin", 0)

AccountSpec == AccountInit /\ [][AccountNext]_vars

(***************************************************************************)
(* Settings: one sender who registers or enters as a guest and taps        *)
(* language and currency buttons, the offered ones and foreign ones.  A    *)
(* run stops changing settings once the audit log holds MaxAudit rows.     *)
(***************************************************************************)
MaxAudit == 2

LanguageCodes == {"ar", "en", "fr"}
CurrencyCodes == {"SAR", "USD", "XYZ"}

SettingsNext ==
    \/ \E u \in Senders : register_user(u) /\ Arrives(u, "start", 0)
    \/ \E u \in Senders : guest_mode(u) /\ Arrives(u, "start", 0)
    \/ \E u \in Senders, lang_code \in LanguageCodes :
         /\ Len(audit_log) < MaxAudit
         /\ language_callback_handler(u, lang_code)
         /\ Arrives(u, "settings", 0)
    \/ \E u \in Senders, currency_code \in CurrencyCodes :
         /\ Len(audit_log) < MaxAudit
         /\ currency_callback_handler(u, currency_code)
         /\ Arrives(u, "settings", 0)

SettingsSpec == Init /\ [][SettingsNext]_vars

(***************************************************************************)
(* Restart: a run that begins where a registered sender has a deposit      *)
(* draft in progress, at the reference prompt or at the confirmation, and  *)
(* still has every menu button and irregular update of the bounds ahead.   *)
(***************************************************************************)
DraftInProgress(st, reference) ==
    [st |-> st,
     data |-> [EmptyData EXCEPT
                 !.request_type = Some("deposit"),
                 !.company_id = Some(1),
                 !.payment_method_id = Some(1),
                 !.amount = Some(<<"1", ".", "0", "0">>),
                 !.currency = Some(DEFAULT_CURRENCY),
                 !.reference = reference],
     draft_no |-> IF reference = Nil THEN 0 ELSE 1]

DraftsInProgress ==
    { DraftInProgress(DepositStates.waiting_for_reference, Nil),
      DraftInProgress(DepositStates.waiting_for_confirmation,
                      Some(<<"r", "e", "f", "-", "1">>)) }

RestartInit ==
    /\ companies = <<CompanyRow(1, TRUE)>>
    /\ payment_methods = <<MethodRow(1, 1, TRUE)>>
    /\ users = <<StoredUser(101)>>
    /\ audit_log = <<StoredAudit>>
    /\ roles = default_roles
    /\ admin_roles = <<>>
    /\ \E d \in DraftsInProgress :
         /\ state = [u \in TelegramIds |-> d.st]
         /\ data = [u \in TelegramIds |-> d.data]
         /\ draft_no = [u \in TelegramIds |-> d.draft_no]
    /\ requests = <<>>
    /\ complaints = <<>>
    /\ tasks = {}
    /\ reply = [u \in TelegramIds |->
                  IF state[u] = DepositStates.waiting_for_reference
                  THEN "enter_reference" ELSE "request_confirmation"]
    /\ menus = 0
    /\ irregular = 0
    /\ origin = <<>>
    /\ faulted = FALSE
    /\ BroadcastIdle
    /\ admin_outbox = {}

RestartSpec == RestartInit /\ [][Next]_vars

(***************************************************************************)
(* Two conversations.  MemoryStorage keeps state and data under a key made *)
(* of the bot, the chat and the user, and the middleware opens a session   *)
(* for each update.  Both senders are registered and each has a draft in   *)
(* progress: 101 a deposit waiting for its reference, 102 a withdrawal     *)
(* waiting for its address, on another company, method and amount.         *)
(***************************************************************************)
PairIds == {101, 102}

PairDrafts ==
    (101 :> DraftInProgress(DepositStates.waiting_for_reference, Nil)) @@
    (102 :> [st |-> WithdrawStates.waiting_for_address,
             data |-> [EmptyData EXCEPT
                         !.request_type = Some("withdraw"),
                         !.company_id = Some(2),
                         !.payment_method_id = Some(2),
                         !.amount = Some(<<"2", ".", "5", "0">>),
                         !.currency = Some(DEFAULT_CURRENCY)],
             draft_no |-> 0])

PairInit ==
    /\ companies = <<CompanyRow(1, TRUE), CompanyRow(2, TRUE)>>
    /\ payment_methods = <<MethodRow(1, 1, TRUE), MethodRow(2, 2, TRUE)>>
    /\ users = <<StoredUser(101), [StoredUser(102) EXCEPT !.id = 2]>>
    /\ audit_log = <<StoredAudit, [StoredAudit EXCEPT !.id = 2,
                                                      !.actor_user_id = 2,
                                                      !.entity_id = 2]>>
    /\ roles = default_roles
    /\ admin_roles = <<>>
    /\ state = [u \in PairIds |-> PairDrafts[u].st]
    /\ data = [u \in PairIds |-> PairDrafts[u].data]
    /\ draft_no = [u \in PairIds |-> 0]
    /\ requests = <<>>
    /\ complaints = <<>>
    /\ tasks = {}
    /\ reply = [u \in PairIds |->
                  IF u = 101 THEN "enter_reference"
                  ELSE "enter_withdrawal_address"]
    /\ menus = 0
    /\ irregular = 0
    /\ origin = <<>>
    /\ faulted = FALSE
    /\ BroadcastIdle
    /\ admin_outbox = {}

\* the rest of both flows: the free text, the confirmation and the commits
PairNext ==
    \/ \E u \in Senders, text \in ReferenceTexts \cup CancelTexts :
         deposit_reference_handler(u, text) /\ Arrives(u, "text", 0)
    \/ \E u \in Senders, text \in AddressTexts \cup CancelTexts :
         withdraw_address_handler(u, text) /\ Arrives(u, "text", 0)
    \/ \E u \in Senders : confirm_request_handler(u) /\ Arrives(u, "confirm", 0)
    \/ \E t \in tasks : CommitRequest(t) /\ Internal
    \/ \E t \in tasks : create_audit_log(t) /\ Internal
    \/ \E u \in Senders : cancel_request_handler(u) /\ Arrives(u, "confirm", 0)
    \/ \E u \in Senders : cancel_callback_handler(u) /\ Arrives(u, "cancel", 0)

PairSpec == PairInit /\ [][PairNext]_vars

(***************************************************************************)
(* Broadcasts (services/broadcast_service.py).  main creates one           *)
(* BroadcastService and one start_worker task.  queue_broadcast puts a job *)
(* on the asyncio.Queue; the worker takes one job, runs _process_broadcast *)
(* to its end and only then returns to broadcast_queue.get().  A job sends *)
(* to its recipients in chunks; the sends of one chunk run concurrently    *)
(* under asyncio.gather, each retrying up to BROADCAST_RETRY_ATTEMPTS      *)
(* times.  Whether an attempt succeeds is Telegram's choice.  The pauses   *)
(* between attempts and between chunks are part of the step before them,   *)
(* which records the seconds slept.                                        *)
(***************************************************************************)
MaxJobs == 2

\* config.py sets 100; the recipient lists here are cut to match
BROADCAST_CHUNK_SIZE == 2

BROADCAST_RETRY_ATTEMPTS == 3

BROADCAST_RETRY_DELAY == 5

BROADCAST_RATE_LIMIT == 28

\* the messages handed over by handlers/announcements.py and
\* handlers/broadcast.py
BroadcastMessages == {"announcement", "reply_to_message"}

\* the user_ids argument: None (every registered user), or a list: of no
\* recipient, of one, and of one more than a chunk holds
RecipientLists ==
    {Nil, Some(<<>>), Some(<<101>>),
     Some([k \in 1..(BROADCAST_CHUNK_SIZE + 1) |-> 100 + k])}

\* asyncio.Queue.get: the oldest item
Queue_get_newest(q) ==
    [item |-> q[Len(q)], rest |-> SubSeq(q, 1, Len(q) - 1)]

Queue_get(q) == [item |-> Head(q), rest |-> Tail(q)]

queue_broadcast(message, user_ids) ==
    /\ broadcast_log.time < MaxJobs
    /\ UNCHANGED <<companies, payment_methods, users, roles, admin_roles,
                   state, data, requests, complaints, audit_log, tasks, reply,
                   menus, irregular, draft_no, origin, faulted, admin_outbox, worker>>
    /\ broadcast_log' = [broadcast_log EXCEPT !.time = @ + 1]
    /\ broadcast_service' =
         [broadcast_service EXCEPT !.broadcast_queue =
             Append(@, [message |-> message, user_ids |-> user_ids,
                        timestamp |-> broadcast_log'.time])]

\* broadcast_queue.get() returns and _process_broadcast begins
start_worker ==
    /\ worker.pc = "get"
    /\ broadcast_service.broadcast_queue # <<>>
    /\ UNCHANGED <<companies, payment_methods, users, roles, admin_roles,
                   state, data, requests, complaints, audit_log, tasks, reply,
                   menus, irregular, draft_no, origin, faulted, admin_outbox>>
    /\ LET got == Queue_get(broadcast_service.broadcast_queue)
       IN  /\ broadcast_service' = [is_broadcasting |-> TRUE,
                                    broadcast_queue |-> got.rest]
           /\ worker' = [WorkerIdle EXCEPT !.pc = "process",
                                           !.broadcast_data = Some(got.item)]
           /\ broadcast_log' = [broadcast_log EXCEPT !.started =
                                   Append(@, got.item.timestamp)]

\* the places in user_ids of the slice user_ids[i : i + size]
ChunkPlaces(user_ids, i) ==
    {p \in 1..Len(user_ids) : i < p /\ p <= i + BROADCAST_CHUNK_SIZE}

\* variant: the pause follows every chunk
rate_limit_pause_always(i, n) == <<BROADCAST_RATE_LIMIT>>

\* the seconds slept after the chunk that starts at offset i of n recipients
rate_limit_pause(i, n) ==
    IF i + BROADCAST_CHUNK_SIZE < n THEN <<BROADCAST_RATE_LIMIT>> ELSE <<>>

\* the coroutines _broadcast_chunk creates for user_ids[i : i + size]
ChunkTasks(user_ids, i) ==
    LET last == IF i + BROADCAST_CHUNK_SIZE < Len(user_ids)
                THEN i + BROADCAST_CHUNK_SIZE ELSE Len(user_ids)
    IN  [k \in 1..(last - i) |->
            [user_id |-> user_ids[i + k], attempt |-> 0, result |-> "pending",
             waits |-> <<>>]]

\* variant: is_broadcasting is not reset
FinishBroadcastBusy(outcome, success_count, failed_count, pauses) ==
    /\ UNCHANGED broadcast_service
    /\ worker' = WorkerIdle
    /\ broadcast_log' = [broadcast_log EXCEPT !.finished =
          Append(@, [timestamp |-> Get(worker.broadcast_data).timestamp,
                     outcome |-> outcome,
                     success_count |-> success_count,
                     failed_count |-> failed_count,
                     pauses |-> pauses])]

\* _process_broadcast returns or fails: finally, then task_done and the
\* next turn of the worker's loop
FinishBroadcast(outcome, success_count, failed_count, pauses) ==
    /\ broadcast_service' = [broadcast_service EXCEPT !.is_broadcasting = FALSE]
    /\ worker' = WorkerIdle
    /\ broadcast_log' = [broadcast_log EXCEPT !.finished =
          Append(@, [timestamp |-> Get(worker.broadcast_data).timestamp,
                     outcome |-> outcome,
                     success_count |-> success_count,
                     failed_count |-> failed_count,
                     pauses |-> pauses])]

\* _process_broadcast up to its first chunk.  AsyncSession() is bound to no
\* engine, so the select for user_ids None raises.
_process_broadcast ==
    /\ worker.pc = "process"
    /\ UNCHANGED <<companies, payment_methods, users, roles, admin_roles,
                   state, data, requests, complaints, audit_log, tasks, reply,
                   menus, irregular, draft_no, origin, faulted, admin_outbox>>
    /\ LET user_ids == Get(worker.broadcast_data).user_ids
       IN  IF user_ids = Nil
           THEN FinishBroadcast("error", 0, 0, <<>>)
           ELSE IF Get(user_ids) = <<>>
           THEN FinishBroadcast("no_users", 0, 0, <<>>)
           ELSE /\ worker' = [worker EXCEPT !.pc = "chunk",
                                 !.user_ids = Get(user_ids),
                                 !.sends = ChunkTasks(Get(user_ids), 0),
                                 !.chunks = <<ChunkPlaces(Get(user_ids), 0)>>]
                /\ UNCHANGED <<broadcast_service, broadcast_log>>

\* variant: the wait follows every failed attempt
retry_wait_always(attempt) == <<BROADCAST_RETRY_DELAY * (attempt + 1)>>

\* the except branch of the loop: the seconds slept after the failure of
\* the attempt numbered attempt (from 0), if any
retry_wait(attempt) ==
    IF attempt < BROADCAST_RETRY_ATTEMPTS - 1
    THEN <<BROADCAST_RETRY_DELAY * (attempt + 1)>>
    ELSE <<>>

\* one attempt of _send_message_to_user for the k-th recipient of the
\* chunk, with the wait that follows it when it fails; attempt counts the
\* failed attempts and waits lists the seconds slept
_send_message_to_user(k) ==
    /\ worker.pc = "chunk"
    /\ k \in DOMAIN worker.sends
    /\ worker.sends[k].result = "pending"
    /\ UNCHANGED <<companies, payment_methods, users, roles, admin_roles,
                   state, data, requests, complaints, audit_log, tasks, reply,
                   menus, irregular, draft_no, origin, faulted, admin_outbox,
                   broadcast_service, broadcast_log>>
    /\ \E delivered \in BOOLEAN :
         worker' = [worker EXCEPT
            !.sends[k] =
               IF delivered
               THEN [@ EXCEPT !.result = "True"]
               ELSE [@ EXCEPT
                       !.attempt = @ + 1,
                       !.waits = @ \o retry_wait(worker.sends[k].attempt),
                       !.result =
                          IF worker.sends[k].attempt + 1 < BROADCAST_RETRY_ATTEMPTS
                          THEN "pending" ELSE "False"],
            !.exhausted =
               IF ~delivered /\
                  worker.sends[k].attempt + 1 = BROADCAST_RETRY_ATTEMPTS
               THEN @ \cup {worker.i + k} ELSE @]

\* the loop over the results of asyncio.gather(..., return_exceptions=True)
chunk_failed(sends) ==
    Cardinality({k \in DOMAIN sends : sends[k].result = "Exception"})

chunk_success(sends) ==
    Cardinality({k \in DOMAIN sends : sends[k].result # "Exception"})

\* variant: a recipient that could not be reached ends the job
_broadcast_chunk_stopping ==
    /\ worker.pc = "chunk"
    /\ \A k \in DOMAIN worker.sends : worker.sends[k].result # "pending"
    /\ UNCHANGED <<companies, payment_methods, users, roles, admin_roles,
                   state, data, requests, complaints, audit_log, tasks, reply,
                   menus, irregular, draft_no, origin, faulted, admin_outbox>>
    /\ LET success_count == worker.success_count + chunk_success(worker.sends)
           failed_count == worker.failed_count + chunk_failed(worker.sends)
           next == worker.i + BROADCAST_CHUNK_SIZE
           pauses == worker.pauses \o
                        rate_limit_pause(worker.i, Len(worker.user_ids))
       IN  IF /\ next < Len(worker.user_ids)
              /\ \A k \in DOMAIN worker.sends : worker.sends[k].result = "True"
           THEN /\ worker' = [worker EXCEPT !.i = next,
                                 !.success_count = success_count,
                                 !.failed_count = failed_count,
                                 !.sends = ChunkTasks(worker.user_ids, next),
                                 !.chunks = Append(@,
                                    ChunkPlaces(worker.user_ids, next)),
                                 !.pauses = pauses]
                /\ UNCHANGED <<broadcast_service, broadcast_log>>
           ELSE FinishBroadcast("completed", success_count, failed_count,
                                pauses)

\* gather returns: the chunk is counted, then the next chunk or the end
_broadcast_chunk ==
    /\ worker.pc = "chunk"
    /\ \A k \in DOMAIN worker.sends : worker.sends[k].result # "pending"
    /\ UNCHANGED <<companies, payment_methods, users, roles, admin_roles,
                   state, data, requests, complaints, audit_log, tasks, reply,
                   menus, irregular, draft_no, origin, faulted, admin_outbox>>
    /\ LET success_count == worker.success_count + chunk_success(worker.sends)
           failed_count == worker.failed_count + chunk_failed(worker.sends)
           next == worker.i + BROADCAST_CHUNK_SIZE
           pauses == worker.pauses \o
                        rate_limit_pause(worker.i, Len(worker.user_ids))
       IN  IF next < Len(worker.user_ids)
           THEN /\ worker' = [worker EXCEPT !.i = next,
                                 !.success_count = success_count,
                                 !.failed_count = failed_count,
                                 !.sends = ChunkTasks(worker.user_ids, next),
                                 !.chunks = Append(@,
                                    ChunkPlaces(worker.user_ids, next)),
                                 !.pauses = pauses]
                /\ UNCHANGED <<broadcast_service, broadcast_log>>
           ELSE FinishBroadcast("completed", success_count, failed_count,
                                pauses)

BroadcastNext ==
    \/ \E message \in BroadcastMessages, user_ids \in RecipientLists :
         queue_broadcast(message, user_ids)
    \/ start_worker
    \/ _process_broadcast
    \/ \E k \in 1..BROADCAST_CHUNK_SIZE : _send_message_to_user(k)
    \/ _broadcast_chunk

BroadcastSpec == Init /\ [][BroadcastNext]_vars

\* BroadcastService.is_busy
is_busy ==
    broadcast_service.is_broadcasting
        \/ broadcast_service.broadcast_queue # <<>>

(***************************************************************************)
(* The worker under the event loop's scheduling: a coroutine that can run  *)
(* is run, and every call to Telegram returns or raises within the         *)
(* request timeout of the bot's session, so each step of the worker that   *)
(* stays possible is taken.  Nothing is assumed about queue_broadcast.     *)
(***************************************************************************)
BroadcastLiveSpec ==
    /\ Init
    /\ [][BroadcastNext]_vars
    /\ WF_vars(start_worker)
    /\ WF_vars(_process_broadcast)
    /\ WF_vars(\E k \in 1..BROADCAST_CHUNK_SIZE : _send_message_to_user(k))
    /\ WF_vars(_broadcast_chunk)

(***************************************************************************)
(* Properties                                                              *)
(***************************************************************************)
RequestIds == 1..Len(requests)

ComplaintIds == 1..Len(complaints)

\* audit rows recording the creation of row `id` of table `entity`
CreationAudits(entity, id) ==
    {k \in 1..Len(audit_log) :
        /\ audit_log[k].action = "create_" \o entity
        /\ audit_log[k].entity = entity
        /\ audit_log[k].entity_id = id}

\* 1.00 <= d <= 1,000,000.00, in integer arithmetic
InLimits(d) ==
    /\ d.kind = "num"
    /\ d.sign = 0
    /\ IF d.exp >= 0
       THEN /\ 1 <= d.coef * Pow10(d.exp)
            /\ d.coef * Pow10(d.exp) <= 1000000
       ELSE /\ Pow10(0 - d.exp) <= d.coef
            /\ d.coef <= 1000000 * Pow10(0 - d.exp)

\* C1: however the confirm events of a sender interleave, one confirmation
\* draft of that sender leaves at most one request row.
C1_OneRequestPerDraft ==
    \A i, j \in RequestIds :
        (/\ origin[i].st \in ConfirmationStates
         /\ origin[j].st \in ConfirmationStates
         /\ requests[i].user_id = requests[j].user_id
         /\ origin[i].draft = origin[j].draft) => i = j

\* C2: once no handler is mid-way, a request or complaint row exists exactly
\* when the audit row of its creation exists.
C2_RowIffAudit ==
    tasks = {} =>
        /\ \A i \in RequestIds : CreationAudits("request", i) # {}
        /\ \A i \in ComplaintIds : CreationAudits("complaint", i) # {}
        /\ \A k \in 1..Len(audit_log) :
             /\ audit_log[k].action = "create_request"
                    => audit_log[k].entity_id \in RequestIds
             /\ audit_log[k].action = "create_complaint"
                    => audit_log[k].entity_id \in ComplaintIds

\* C3: when the audit write of a creation fails, the created row is rolled
\* back and the sender is told of the failure.
C3_AuditFailureRollsBack ==
    [][\A t \in tasks :
          (create_audit_log(t) /\ audit_log' = audit_log) =>
              /\ reply'[t.u] = "error"
              /\ t.kind = "request" =>
                    ~\E i \in 1..Len(requests') : requests'[i].id = t.id
              /\ t.kind = "complaint" =>
                    ~\E i \in 1..Len(complaints') : complaints'[i].id = t.id]_vars

\* C4: when the sender follows the prompts one update at a time, a confirmed
\* draft leaves exactly one request row, holding the registered sender, the
\* active company and its active payment method that were selected, the
\* type of the flow, the accepted amount and status pending, and (when no
\* storage call fails) exactly one create_request audit row for it.
C4_ConfirmCreatesOneRequest ==
    irregular = 0 =>
        /\ \A i \in RequestIds :
             LET r == requests[i]
                 o == origin[i]
             IN  /\ o.st \in ConfirmationStates
                 /\ r.user_id \in 1..Len(users)
                 /\ users[r.user_id].is_registered
                 /\ r.company_id = Get(o.data.company_id)
                 /\ r.company_id \in ActiveCompanies
                 /\ r.payment_method_id = Get(o.data.payment_method_id)
                 /\ r.payment_method_id \in ActiveMethodsOf(r.company_id)
                 /\ r.request_type =
                        (IF o.st = DepositStates.waiting_for_confirmation
                         THEN "deposit" ELSE "withdraw")
                 /\ r.amount = Decimal(Get(o.data.amount))
                 /\ InLimits(r.amount)
                 /\ r.status = "pending"
                 /\ r.request_type = "deposit" =>
                        r.reference # Nil /\ r.reference = o.data.reference
                 /\ \A j \in RequestIds : origin[j].draft = o.draft => j = i
                 /\ Cardinality(CreationAudits("request", i)) <= 1
                 /\ (tasks = {} /\ ~faulted) =>
                        Cardinality(CreationAudits("request", i)) = 1
        /\ \A u \in Senders :
             reply[u] = "request_created_successfully" =>
                 \E i \in RequestIds :
                     /\ users[requests[i].user_id].telegram_id = u
                     /\ origin[i].draft = draft_no[u]

\* a deposit confirmed by the prompts alone has left its row and audit row
C4_Reached ==
    /\ irregular = 0
    /\ ~faulted
    /\ tasks = {}
    /\ Len(requests) = 1
    /\ requests[1].request_type = "deposit"
    /\ requests[1].status = "pending"
    /\ Cardinality(CreationAudits("request", 1)) = 1
    /\ \E u \in Senders : reply[u] = "request_created_successfully"

\* C5: every request row stems from a confirm event received in a
\* confirmation state with the draft fully collected, and is pending.
C5_OnlyFromConfirmation ==
    \A i \in RequestIds :
        /\ origin[i].st \in ConfirmationStates
        /\ origin[i].data.request_type # Nil
        /\ requests[i].request_type = "deposit" => requests[i].reference # Nil
        /\ requests[i].request_type = "withdraw" =>
               requests[i].user_withdraw_to # Nil
        /\ requests[i].status = "pending"

\* C6: no two request rows hold the same client token.
C6_TokensDistinct ==
    \A i, j \in RequestIds :
        requests[i].client_token = requests[j].client_token => i = j

\* two rows stored, with different tokens
C6_TwoRequests ==
    /\ Len(requests) = 2
    /\ requests[1].client_token # requests[2].client_token

ExpectedAccepted ==
    { <<"1", ".", "0", "0">>,
      <<" ", "1", "0", "0", "0", "0", "0", "0", ",", "0">> }

\* C8: in an amount state a number within the limits is accepted and stored;
\* any other text is rejected with the state and the draft unchanged; no row
\* is written either way.
C8_AmountValidation ==
    [][\A u \in Senders, text \in AmountTexts \cup ComplaintTexts :
          (amount_handler(u, text) /\ UserOf(u) # Nil) =>
              /\ UNCHANGED <<users, requests, complaints, audit_log>>
              /\ IF text \in ExpectedAccepted
                 THEN /\ state'[u] \in {DepositStates.waiting_for_reference,
                                        WithdrawStates.waiting_for_address}
                      /\ data'[u].amount # Nil
                      /\ InLimits(Decimal(Get(data'[u].amount)))
                      /\ NumEq(Decimal(Get(data'[u].amount)),
                               Decimal(ReplaceComma(text)))
                 ELSE /\ state'[u] = state[u]
                      /\ data'[u] = data[u]
                      /\ reply'[u] \in {"invalid_amount_format",
                                        "amount_too_small",
                                        "amount_too_large"}]_vars

\* an amount above the limit was rejected in an amount state
C8_Rejected ==
    \E u \in Senders :
        /\ state[u] \in AmountStates
        /\ reply[u] = "amount_too_large"
        /\ data[u].amount = Nil

\* C9: a sender who is not registered (a guest, or one with no users row)
\* is in no flow state, and no request or complaint row belongs to one.
C9_GuestStaysOutside ==
    /\ \A u \in Senders : is_guest_mode(u) => state[u] = None
    /\ \A i \in RequestIds : users[requests[i].user_id].is_registered
    /\ \A i \in ComplaintIds : users[complaints[i].user_id].is_registered

\* the cancel events of the sender: the inline cancel button, the "no"
\* button of the confirmation, and the cancel text in a text-entry state
CancelEvent(u) ==
    \/ cancel_callback_handler(u)
    \/ cancel_request_handler(u)
    \/ \E text \in CancelTexts :
         \/ amount_handler(u, text)
         \/ deposit_reference_handler(u, text)
         \/ withdraw_address_handler(u, text)
         \/ complaint_text_handler(u, text)

C11_CommitFailureKeepsContext ==
    [][\A t \in tasks :
          CommitRequest(t) =>
              \/ Len(requests') = Len(requests) + 1
              \/ /\ requests' = requests
                 /\ audit_log' = audit_log
                 /\ state'[t.u] = state[t.u]
                 /\ data'[t.u] = data[t.u]
                 /\ reply'[t.u] = "error"]_vars

\* the commit of a prompted confirm failed: the draft is still in its
\* confirmation state and no request row exists
C11_FailedCommit ==
    \E u \in Senders :
        /\ irregular = 0
        /\ tasks = {}
        /\ faulted
        /\ Len(audit_log) = 1
        /\ requests = <<>>
        /\ reply[u] = "error"
        /\ state[u] \in ConfirmationStates
        /\ Constructible(data[u])

\* the users rows of a Telegram id
RowsOf(u) == {i \in 1..Len(users) : users[i].telegram_id = u}

\* the roles the admin_roles table links to users row i
LinkedRoles(i) ==
    {r \in 1..Len(roles) :
        \E a \in 1..Len(admin_roles) :
            /\ admin_roles[a].user_id = users[i].id
            /\ admin_roles[a].role_id = roles[r].id}

\* C12: an allowlisted actor has every permission, whatever the users and
\* admin_roles tables hold for that actor.
C12_AllowlistHasAll ==
    \A u \in ADMINS :
        /\ get_user_permissions(u) = ALL_PERMISSIONS
        /\ \A k \in DOMAIN Permissions : has_permission(u, Permissions[k])

\* the allowlisted actor registered after entering as a guest: its users
\* row is not flagged admin, and it has every permission
C12_UnflaggedSuperAdmin ==
    \E u \in ADMINS :
        /\ RowsOf(u) # {}
        /\ \A i \in RowsOf(u) : users[i].is_registered /\ ~users[i].is_admin
        /\ get_user_permissions(u) = ALL_PERMISSIONS

\* C13: an actor outside the allowlist has no permission when it has no
\* users row or its row is not flagged admin, whatever admin_roles holds;
\* otherwise it has exactly the permissions of the roles linked to its row.
C13_StoredPermissions ==
    \A u \in Senders \ ADMINS :
        IF RowsOf(u) = {} \/ \A i \in RowsOf(u) : ~users[i].is_admin
        THEN get_user_permissions(u) = {}
        ELSE \A k \in DOMAIN Permissions :
                has_permission(u, Permissions[k]) <=>
                    \E i \in RowsOf(u), r \in 1..Len(roles) :
                        /\ r \in LinkedRoles(i)
                        /\ Permissions[k] \in roles[r].permissions

\* an ordinary sender flagged admin and linked to the Finance Manager and
\* Support Agent roles has the permissions of both, and no other
C13_UnionOfTwoRoles ==
    \E u \in Senders \ ADMINS :
        /\ \E i \in RowsOf(u) :
             users[i].is_admin /\ Cardinality(LinkedRoles(i)) = 2
        /\ get_user_permissions(u) =
              {"ManagePayments", "ApproveTx", "Reports", "ManageUsers",
               "Broadcast"}

C15_RemoveSuperAdminRefused ==
    [][\A u \in Senders, text \in UserIdTexts :
          (/\ process_user_id_handler(u, text)
           /\ data[u].action = Some("remove_admin")
           /\ int(text) # Nil
           /\ Get(int(text)) \in ADMINS) =>
              /\ UNCHANGED <<users, roles, admin_roles, audit_log>>
              /\ reply'[u] \in {"cannot_remove_super_admin", "user_not_found",
                                "user_not_registered"}
              /\ get_user_permissions(Get(int(text)))' = ALL_PERMISSIONS]_vars

\* the removal of the allowlisted actor, whose users row is flagged admin,
\* was refused
C15_Refused ==
    \E u \in Senders, a \in ADMINS :
        /\ reply[u] = "cannot_remove_super_admin"
        /\ state[u] = None
        /\ RowsOf(a) # {}
        /\ \A i \in RowsOf(a) : users[i].is_admin

\* the users rows flagged admin
AdminFlagged == {i \in 1..Len(users) : users[i].is_admin}

\* C16: the admin flag of a users row is set or reset only by a step of an
\* allowlisted actor: its registration or a user id it submits to a grant
\* or revoke it started.
C16_OnlySuperAdminChangesFlag ==
    [][AdminFlagged' # AdminFlagged =>
          \E u \in ADMINS :
              \/ register_user(u)
              \/ \E text \in UserIdTexts : process_user_id_handler(u, text)]_vars

\* an ordinary sender whom a super admin flagged admin asked for a grant or
\* revoke and was turned away
C16_DatabaseAdminTurnedAway ==
    \E u \in Senders \ ADMINS :
        /\ RowsOf(u) # {}
        /\ \A i \in RowsOf(u) : users[i].is_admin
        /\ reply[u] = "unauthorized"
        /\ state[u] = None

\* C17: every committed grant or revoke of the admin flag appends exactly
\* one audit row, which records the flag before and after.
C17_FlagChangeAudited ==
    [][\A u \in Senders, text \in UserIdTexts :
          (process_user_id_handler(u, text) /\ AdminFlagged' # AdminFlagged) =>
              /\ Len(audit_log') = Len(audit_log) + 1
              /\ SubSeq(audit_log', 1, Len(audit_log)) = audit_log
              /\ LET row == audit_log'[Len(audit_log')]
                     target == users[CHOOSE i \in RowsOf(Get(int(text))) : TRUE]
                 IN  /\ row.entity = "user"
                     /\ row.entity_id = target.id
                     /\ row.before = Some(target.is_admin)
                     /\ row.after = Some(~target.is_admin)]_vars

\* the currencies get_currency_keyboard offers
OfferedCurrencies == {"SAR", "USD", "EUR", "AED"}

\* the step appended one audit row of the given action about users row
\* `id`, with the given old and new value
AuditAppended(action, id, old, new) ==
    /\ Len(audit_log') = Len(audit_log) + 1
    /\ SubSeq(audit_log', 1, Len(audit_log)) = audit_log
    /\ LET row == audit_log'[Len(audit_log')]
       IN  /\ row.action = action
           /\ row.entity = "user"
           /\ row.entity_id = id
           /\ row.before = Some(old)
           /\ row.after = Some(new)

\* C18: every committed change of a sender's language or currency appends
\* exactly one audit row holding the old and the new value; a selection
\* that is not offered changes no users row and appends no audit row.
C18_SettingChangeAudited ==
    [][\A u \in Senders :
          /\ \A lang_code \in LanguageCodes :
               language_callback_handler(u, lang_code) =>
                   /\ lang_code \notin SUPPORTED_LANGUAGES =>
                          UNCHANGED <<users, audit_log>>
                   /\ users' # users =>
                          AuditAppended("change_language", Get(UserOf(u)).id,
                                        Get(UserOf(u)).language, lang_code)
          /\ \A currency_code \in CurrencyCodes :
               currency_callback_handler(u, currency_code) =>
                   /\ currency_code \notin OfferedCurrencies =>
                          UNCHANGED <<users, audit_log>>
                   /\ users' # users =>
                          AuditAppended("change_currency", Get(UserOf(u)).id,
                                        Get(UserOf(u)).currency, currency_code)]_vars

\* C19: the audit log is append-only: every step keeps every audit row it
\* found, in place and with all its fields.
C19_AuditAppendOnly ==
    [][/\ Len(audit_log') >= Len(audit_log)
       /\ SubSeq(audit_log', 1, Len(audit_log)) = audit_log]_vars

\* the audit row of the registration is still in place after the audit row
\* of a request was appended
C19_TwoAuditRows ==
    /\ Len(audit_log) = 2
    /\ audit_log[1].action = "create_user"
    /\ audit_log[2].action = "create_request"
    /\ tasks = {}

\* the request drafts of confirm events: those whose row is stored, and
\* those whose handler is suspended at its commit
ConfirmedDrafts ==
    {[u |-> users[requests[i].user_id].telegram_id, draft |-> origin[i].draft,
      st |-> origin[i].st, client_token |-> requests[i].client_token] :
        i \in RequestIds}
    \cup {[u |-> t.u, draft |-> t.draft, st |-> t.st,
           client_token |-> Get(t.row).client_token] :
            t \in {x \in tasks : x.kind = "request" /\ x.pc = "commit"}}

\* C25: the token of a draft is made once, on entering the confirmation
\* state: all confirm events of one draft carry the same token.
C25_OneTokenPerDraft ==
    \A a, b \in ConfirmedDrafts :
        (/\ a.u = b.u
         /\ a.draft = b.draft
         /\ a.st \in ConfirmationStates
         /\ b.st \in ConfirmationStates) => a.client_token = b.client_token

\* the state each later state of a request flow follows
Predecessor(st) ==
    CASE st = DepositStates.waiting_for_payment_method ->
            DepositStates.waiting_for_company
      [] st = DepositStates.waiting_for_amount ->
            DepositStates.waiting_for_payment_method
      [] st = DepositStates.waiting_for_reference ->
            DepositStates.waiting_for_amount
      [] st = DepositStates.waiting_for_confirmation ->
            DepositStates.waiting_for_reference
      [] st = WithdrawStates.waiting_for_payment_method ->
            WithdrawStates.waiting_for_company
      [] st = WithdrawStates.waiting_for_amount ->
            WithdrawStates.waiting_for_payment_method
      [] st = WithdrawStates.waiting_for_address ->
            WithdrawStates.waiting_for_amount
      [] st = WithdrawStates.waiting_for_confirmation ->
            WithdrawStates.waiting_for_address
      [] OTHER -> None

\* the states of a request flow after the company selection
LaterStates ==
    (FlowStates \ {ComplaintStates.waiting_for_text})
        \ {DepositStates.waiting_for_company,
           WithdrawStates.waiting_for_company}

\* C26: a request flow advances one state at a time: a sender enters a
\* later state of the flow only from the state just before it.
C26_EnteredFromPredecessor ==
    [][\A u \in Senders :
          (state'[u] # state[u] /\ state'[u] \in LaterStates) =>
              state[u] = Predecessor(state'[u])]_vars

\* C27: in a company-selection state a company callback is accepted only
\* for an existing active company; for any other id the sender's state and
\* draft stay as they were.
C27_OnlyActiveCompany ==
    [][\A u \in Senders, c \in CompanyIds :
          (/\ company_selection_handler(u, c)
           /\ state[u] \in {DepositStates.waiting_for_company,
                            WithdrawStates.waiting_for_company}
           /\ c \notin ActiveCompanies) =>
              /\ state'[u] = state[u]
              /\ data'[u] = data[u]]_vars

\* C28: a payment method is accepted only if it is active and belongs to the
\* company selected before, so the payment method of every stored request
\* belongs to the company of that request.
C28_MethodBelongsToCompany ==
    \A i \in RequestIds :
        /\ requests[i].payment_method_id \in 1..Len(payment_methods)
        /\ payment_methods[requests[i].payment_method_id].company_id =
               requests[i].company_id

\* C29: selecting a company without active payment methods returns the
\* sender to idle with the draft discarded and the no-methods answer; the
\* payment-method state is not entered.
C29_NoMethodsBackToIdle ==
    [][\A u \in Senders, c \in CompanyIds :
          (/\ company_selection_handler(u, c)
           /\ UserOf(u) # Nil
           /\ c \in 1..Len(companies)
           /\ ActiveMethodsOf(c) = {}) =>
              /\ reply'[u] = "no_payment_methods"
              /\ state'[u] = None
              /\ data'[u] = EmptyData]_vars

\* a start event that opened a flow
Started(u) ==
    \/ deposit_handler(u) /\ state'[u] = DepositStates.waiting_for_company
    \/ withdraw_handler(u) /\ state'[u] = WithdrawStates.waiting_for_company
    \/ complaint_start_handler(u)
         /\ state'[u] = ComplaintStates.waiting_for_text

\* C30: a start event handled while a draft is in progress leaves the
\* context holding the new flow's data only: no company, payment method,
\* amount, reference or destination of the abandoned draft stays in it.
C30_StartOverwritesDraft ==
    [][\A u \in Senders :
          Started(u) =>
              /\ data'[u].company_id = Nil
              /\ data'[u].payment_method_id = Nil
              /\ data'[u].amount = Nil
              /\ data'[u].reference = Nil
              /\ data'[u].user_withdraw_to = Nil]_vars

\* a withdrawal stored with the reference of the abandoned deposit draft
StaleReferenceStored ==
    \E i \in RequestIds :
        /\ requests[i].request_type = "withdraw"
        /\ requests[i].reference # Nil

\* C22: the list of pending requests is refused to every actor who lacks
\* the ApproveTx permission.
C22_ListingNeedsApproveTx ==
    [][\A u \in Senders :
          (/\ admin_pending_requests_handler(u)
           /\ ~has_permission(u, Permissions.APPROVE_TX)) =>
              reply'[u] = "unauthorized"]_vars


\* timestamps of the jobs that have run to their end
FinishedJobs ==
    {broadcast_log.finished[n].timestamp : n \in DOMAIN broadcast_log.finished}

\* C23: broadcast jobs are drained one at a time in the order of their
\* queue_broadcast calls: the jobs start in the order they were queued, and
\* no attempt to send is made for a job before every job queued earlier has
\* finished.
C23_JobsDrainedInOrder ==
    [][/\ start_worker =>
            \A n \in DOMAIN broadcast_log'.started :
                broadcast_log'.started[n] = n
       /\ (\E k \in 1..BROADCAST_CHUNK_SIZE : _send_message_to_user(k)) =>
            \A earlier \in 1..(Get(worker.broadcast_data).timestamp - 1) :
                earlier \in FinishedJobs]_vars

\* the second job is sending, after the first job has sent to its
\* recipients and finished
C23_SecondJobSending ==
    /\ worker.pc = "chunk"
    /\ Get(worker.broadcast_data).timestamp = 2
    /\ \E k \in DOMAIN worker.sends : worker.sends[k].attempt > 0
    /\ \E n \in DOMAIN broadcast_log.finished :
          /\ broadcast_log.finished[n].timestamp = 1
          /\ broadcast_log.finished[n].outcome = "completed"

\* recipients of the chunk whose every attempt has failed
Exhausted(sends) ==
    {k \in DOMAIN sends : /\ sends[k].result = "False"
                          /\ sends[k].attempt = BROADCAST_RETRY_ATTEMPTS}

\* C24: a recipient whose delivery failed on every attempt is counted in
\* the failed count, not in the success count, of its chunk and of the job.
C24_ExhaustedCountedFailed ==
    [][_broadcast_chunk =>
         LET after == IF worker'.pc = "chunk" THEN worker'
                      ELSE broadcast_log'.finished[Len(broadcast_log'.finished)]
             n == Cardinality(Exhausted(worker.sends))
         IN  /\ chunk_failed(worker.sends) = n
             /\ chunk_success(worker.sends) = Len(worker.sends) - n
             /\ after.failed_count = worker.failed_count + n
             /\ after.success_count =
                   worker.success_count + Len(worker.sends) - n]_vars


\* C31: the Reset button, received in any flow state, destroys the
\* conversation context: afterwards the conversation is idle and the draft
\* is empty, so that no later confirm event finds the old draft.
C31_ResetDestroysContext ==
    [][\A u \in Senders, text \in ResetTexts :
          (reset_handler(u, text) /\ state[u] \in FlowStates) =>
              /\ state'[u] = None
              /\ data'[u] = EmptyData]_vars


\* the admins bot.send_message was called for about the entity
Notified(entity, entity_id) ==
    {n.admin_id : n \in {m \in admin_outbox' : /\ m.entity = entity
                                               /\ m.entity_id = entity_id}}

\* C32: every committed Request and Complaint is notified to the admins as
\* part of its commit step: when the step that follows the commit ends with
\* the success answer, a notification about the new row has gone out to the
\* admin channel.
C32_CommitNotifiesAdmins ==
    [][\A t \in tasks :
          (create_audit_log(t) /\ reply'[t.u] = Created(t.kind)) =>
              Notified(t.kind, t.id) = ADMINS]_vars

TrimmedOfTenOrMore ==
    {[text |-> <<" ", "n", "o", " ", "p", "a", "y", "o", "u", "t", "!", " ">>,
      trimmed |-> <<"n", "o", " ", "p", "a", "y", "o", "u", "t", "!">>]}

\* C34: in the complaint flow's text state a text of fewer than 10
\* characters after trimming is rejected, with the state and the draft
\* unchanged and no row created; a text of 10 or more goes to exactly one
\* commit, which stores exactly one Complaint, pending and owned by the
\* sender, and the step that ends the handler leaves the sender idle.
C34_ComplaintText ==
    [][/\ \A u \in Senders, text \in ComplaintBodies :
            complaint_text_handler(u, text) =>
               /\ complaints' = complaints
               /\ audit_log' = audit_log
               /\ IF \E a \in TrimmedOfTenOrMore : a.text = text
                  THEN \E t \in tasks' :
                          /\ tasks' = tasks \cup {t} /\ t \notin tasks
                          /\ t.kind = "complaint" /\ t.u = u
                          /\ \E a \in TrimmedOfTenOrMore :
                                a.text = text /\ Get(t.row).text = a.trimmed
                  ELSE /\ tasks' = tasks
                       /\ state' = state /\ data' = data
                       /\ reply'[u] = "complaint_too_short"
       /\ \A t \in tasks :
            CommitComplaint(t) =>
               \/ complaints' = complaints /\ reply'[t.u] = "error"
               \/ /\ Len(complaints') = Len(complaints) + 1
                  /\ SubSeq(complaints', 1, Len(complaints)) = complaints
                  /\ LET c == complaints'[Len(complaints')]
                     IN  /\ c.status = "pending"
                         /\ c.text = Get(t.row).text
                         /\ \E i \in 1..Len(users) :
                               /\ users[i].telegram_id = t.u
                               /\ users[i].id = c.user_id
       /\ \A t \in tasks :
            (create_audit_log(t) /\ t.kind = "complaint") =>
               /\ complaints' = complaints
               /\ state'[t.u] = None
               /\ data'[t.u] = EmptyData]_vars

\* a complaint has been stored and answered, and the sender is idle again
C34_ComplaintStored ==
    /\ complaints # <<>>
    /\ tasks = {}
    /\ \E u \in Senders : /\ state[u] = None
                          /\ reply[u] = "complaint_submitted"


\* some update of sender u is handled, or a task of u takes a step
ActsFor(u) ==
    \/ \E text \in ReferenceTexts \cup CancelTexts :
          deposit_reference_handler(u, text)
    \/ \E text \in AddressTexts \cup CancelTexts :
          withdraw_address_handler(u, text)
    \/ confirm_request_handler(u)
    \/ cancel_request_handler(u)
    \/ cancel_callback_handler(u)
    \/ \E t \in tasks : t.u = u /\ (CommitRequest(t) \/ create_audit_log(t))

\* the sender a request row belongs to
OwnerOf(r) ==
    CHOOSE u \in Senders :
        \E i \in 1..Len(users) : users[i].id = r.user_id
                                 /\ users[i].telegram_id = u

\* the row holds what its owner chose and typed, and nothing else
OwnValues(r) ==
    LET own == PairDrafts[OwnerOf(r)].data
    IN  /\ r.company_id = Get(own.company_id)
        /\ r.payment_method_id = Get(own.payment_method_id)
        /\ r.request_type = Get(own.request_type)
        /\ r.amount = Decimal(Get(own.amount))
        /\ IF OwnerOf(r) = 101
           THEN /\ r.user_withdraw_to = Nil
                /\ r.reference \in
                      {Nil} \cup {Some(Strip(text)) : text \in ReferenceTexts}
           ELSE /\ r.reference = Nil
                /\ r.user_withdraw_to \in
                      {Nil} \cup {Some(Strip(text)) : text \in AddressTexts}

\* C35: the conversations of two senders do not interact: whatever is
\* handled for one sender, the state, the draft and the last answer of the
\* other stay as they are, and every stored request holds only the values
\* of its owner's draft.
C35_ConversationsApart ==
    [][/\ \A u \in Senders :
            ActsFor(u) =>
               \A v \in Senders \ {u} : /\ state'[v] = state[v]
                                        /\ data'[v] = data[v]
                                        /\ reply'[v] = reply[v]
                                        /\ draft_no'[v] = draft_no[v]
       /\ \A n \in 1..Len(requests') : OwnValues(requests'[n])]_vars

\* each sender has a stored request that holds the text the sender typed
C35_BothStored ==
    /\ \E n \in 1..Len(requests) :
          OwnerOf(requests[n]) = 101 /\ requests[n].reference # Nil
    /\ \E n \in 1..Len(requests) :
          OwnerOf(requests[n]) = 102 /\ requests[n].user_withdraw_to # Nil


\* the recipient's send has been tried at least once
Attempted(send) == send.result # "pending" \/ send.attempt > 0

\* C36: delivery is attempted for every recipient whatever happens to the
\* others: when the sends of a chunk have all returned, every recipient of
\* the chunk has been tried; unless the chunk was the last one, the next
\* chunk follows with the recipients that come next, all still to be tried,
\* whether or not some recipient ran out of attempts; and the job ends
\* having counted every recipient of its list.
C36_EveryRecipientAttempted ==
    [][_broadcast_chunk =>
         /\ Len(worker.sends) > 0
         /\ \A k \in DOMAIN worker.sends :
               /\ Attempted(worker.sends[k])
               /\ worker.sends[k].user_id = worker.user_ids[worker.i + k]
         /\ IF worker.i + Len(worker.sends) < Len(worker.user_ids)
            THEN /\ worker'.pc = "chunk"
                 /\ worker'.i = worker.i + Len(worker.sends)
                 /\ Len(worker'.sends) > 0
                 /\ \A k \in DOMAIN worker'.sends :
                       /\ worker'.sends[k].result = "pending"
                       /\ worker'.sends[k].user_id =
                             worker.user_ids[worker'.i + k]
            ELSE LET done == broadcast_log'.finished[Len(broadcast_log'.finished)]
                 IN  /\ worker'.pc = "get"
                     /\ done.success_count + done.failed_count =
                           Len(worker.user_ids)]_vars

\* the first recipient of a job ran out of attempts; the second one, of the
\* same chunk, was reached, and the one of the next chunk has been tried
C36_TriedAfterExhausted ==
    /\ worker.pc = "chunk"
    /\ worker.i > 0
    /\ worker.exhausted = {1}
    /\ \E k \in DOMAIN worker.sends : Attempted(worker.sends[k])


\* the attempts made so far for a recipient
Tries(send) == send.attempt + (IF send.result = "True" THEN 1 ELSE 0)

\* C37: each recipient is tried at most BROADCAST_RETRY_ATTEMPTS times and
\* not again after a delivery; a wait follows each failed attempt but the
\* last, and the waits grow with the number of the attempt.
C37_RetriesAndBackoff ==
    [][\A k \in 1..BROADCAST_CHUNK_SIZE :
          _send_message_to_user(k) =>
             LET before == worker.sends[k]
                 after == worker'.sends[k]
                 slept == Len(after.waits)
             IN  /\ before.result = "pending"
                 /\ Tries(after) = Tries(before) + 1
                 /\ Tries(after) <= BROADCAST_RETRY_ATTEMPTS
                 /\ (after.result = "True") => after.waits = before.waits
                 /\ (after.result = "pending") =>
                       (slept = after.attempt
                        /\ after.attempt < BROADCAST_RETRY_ATTEMPTS)
                 /\ (after.result = "False") =>
                       (/\ after.attempt = BROADCAST_RETRY_ATTEMPTS
                        /\ slept = BROADCAST_RETRY_ATTEMPTS - 1
                        /\ after.waits = before.waits)
                 /\ \A n \in 1..slept :
                       /\ after.waits[n] = BROADCAST_RETRY_DELAY * n
                       /\ n > 1 => after.waits[n] > after.waits[n - 1]
                 /\ \A j \in DOMAIN worker.sends \ {k} :
                       worker'.sends[j] = worker.sends[j]]_vars

\* a recipient was reached at the last attempt, after two waits, and
\* another one was given up without a third wait
C37_LastAttempt ==
    /\ worker.pc = "chunk"
    /\ \E k \in DOMAIN worker.sends :
          /\ worker.sends[k].result = "True"
          /\ worker.sends[k].attempt = BROADCAST_RETRY_ATTEMPTS - 1
    /\ \E k \in DOMAIN worker.sends :
          /\ worker.sends[k].result = "False"
          /\ Len(worker.sends[k].waits) = BROADCAST_RETRY_ATTEMPTS - 1


\* C38: the chunks of a job follow one another: a chunk is left only when
\* each of its sends has returned, and then a rate-limit pause comes before
\* the next chunk; there is a pause between every two chunks and none after
\* the last; and every recipient of the list is in exactly one chunk, of at
\* most BROADCAST_CHUNK_SIZE recipients.
C38_ChunksInSequence ==
    [][_broadcast_chunk =>
         LET n == Len(worker.user_ids)
             last == worker.i + Len(worker.sends) >= n
             done == broadcast_log'.finished[Len(broadcast_log'.finished)]
         IN  /\ \A k \in DOMAIN worker.sends :
                   worker.sends[k].result \in {"True", "False"}
             /\ \A c \in DOMAIN worker.chunks :
                   /\ worker.chunks[c] # {}
                   /\ Cardinality(worker.chunks[c]) <= BROADCAST_CHUNK_SIZE
             /\ IF last
                THEN /\ worker'.pc = "get"
                     /\ done.pauses = worker.pauses
                     /\ Len(done.pauses) = Len(worker.chunks) - 1
                     /\ \A p \in 1..n :
                           Cardinality({c \in DOMAIN worker.chunks :
                                           p \in worker.chunks[c]}) = 1
                ELSE /\ worker'.pc = "chunk"
                     /\ worker'.pauses =
                           Append(worker.pauses, BROADCAST_RATE_LIMIT)
                     /\ Len(worker'.chunks) = Len(worker.chunks) + 1
                     /\ Len(worker'.pauses) = Len(worker'.chunks) - 1
                     /\ \A c \in DOMAIN worker.chunks :
                           worker'.chunks[c] = worker.chunks[c]
                     /\ \A k \in DOMAIN worker'.sends :
                           /\ worker'.sends[k].result = "pending"
                           /\ worker'.sends[k].attempt = 0]_vars

\* a job of three recipients has ended after two chunks and one pause
C38_TwoChunksOnePause ==
    \E n \in DOMAIN broadcast_log.finished :
        /\ broadcast_log.finished[n].outcome = "completed"
        /\ broadcast_log.finished[n].success_count
              + broadcast_log.finished[n].failed_count > BROADCAST_CHUNK_SIZE
        /\ broadcast_log.finished[n].pauses = <<BROADCAST_RATE_LIMIT>>


\* C39: every stored deposit has a reference and no withdrawal address, and
\* every stored withdrawal has a withdrawal address and no reference.
C39_ReferenceOrAddress ==
    \A n \in 1..Len(requests) :
        IF requests[n].request_type = "deposit"
        THEN requests[n].reference # Nil /\ requests[n].user_withdraw_to = Nil
        ELSE requests[n].user_withdraw_to # Nil /\ requests[n].reference = Nil


\* the job with this timestamp waits in the queue
Queued(timestamp) ==
    \E n \in DOMAIN broadcast_service.broadcast_queue :
        broadcast_service.broadcast_queue[n].timestamp = timestamp

\* the job with this timestamp has been taken by the worker
Taken(timestamp) ==
    \E n \in DOMAIN broadcast_log.started :
        broadcast_log.started[n] = timestamp

\* C40: the worker never ends and never stays busy: every queued job is
\* eventually taken; a worker busy with a job, whether the job sends, has no
\* recipients or raises, eventually waits for the next one with
\* is_broadcasting false again; and is_busy() eventually becomes false.
C40_WorkerGoesOn ==
    /\ \A timestamp \in 1..MaxJobs : Queued(timestamp) ~> Taken(timestamp)
    /\ (worker.pc # "get") ~>
          (worker.pc = "get" /\ ~broadcast_service.is_broadcasting)
    /\ broadcast_service.is_broadcasting ~> ~broadcast_service.is_broadcasting
    /\ is_busy ~> ~is_busy

\* a job that raised and a job without recipients have ended, a later job
\* has sent, and the service is idle
C40_IdleAfterFailedJob ==
    /\ ~is_busy
    /\ worker.pc = "get"
    /\ Len(broadcast_log.finished) = MaxJobs
    /\ \E n \in DOMAIN broadcast_log.finished :
          broadcast_log.finished[n].outcome \in {"error", "no_users"}
    /\ broadcast_log.finished[MaxJobs].outcome = "completed"

====
